---- MODULE Spec2Model ----
(***************************************************************************)
(* Model of the remote-desktop host's streaming pipeline:                  *)
(*   - WebRTCServer (src/hpp/webrtc.hpp): session flags, authentication    *)
(*     gate, control-message dispatch, video fragmentation, backpressure,  *)
(*     liveness, force-disconnect;                                         *)
(*   - the orchestrator threads of main (src/main.cpp): encode thread,     *)
(*     audio-dispatch thread, the callbacks wired into the transport;      *)
(*   - the parts of ScreenCapture / FrameSlot / AV1Encoder / ClipboardSync *)
(*     those threads drive.                                                *)
(*                                                                         *)
(* Threads are interleaved at the granularity of the actions below.  The   *)
(* message handler is split inside HandleAuthRequest (between the store to *)
(* `authenticated` and each of the three sends), the encode thread at each *)
(* blocking call of its loop.                                              *)
(*                                                                         *)
(* `ev` is an observation variable: every action records in it which       *)
(* operation ran, the message it handled, the messages it put on the data  *)
(* channel (`out`) and the OS side effect it had (`fx`).  The variables    *)
(* after it are history variables scoped to the current session.           *)
(***************************************************************************)
EXTENDS Integers, Sequences, FiniteSets, TLC

\* ------------------------------------------------------------------ constants
BT == 32768
BTH == BT * 2
CHK == 1400
HDR == 21
DCK == CHK - HDR
MAX_OVERFLOWS == 10
PING_TIMEOUT_MS == 3000
KEYFRAME_INTERVAL == 2000
TEX_POOL_SIZE == 8
AUTH_HDR == 6
TWO16 == 65536

\* ------------------------------------------------------------------ bounds
MaxSessions == 2
MaxTicks == 2
ClockT0 == 1000000
MaxClockUs == 100000
TickMs == 1600
T0 == 5000
MaxFrames == 2
MaxDpc == 1
MaxPush == 5
MaxPushLate == 2
MaxTimers == 1
MaxClipText == 1
MaxSyncText == 2
NumMonitors == 2
HsCap == 4
BigFrameChunks == 17
LongFrameChunks == 33
HostFps == 60
ReqFps == 30

\* ------------------------------------------------------------------ state
VARIABLES
    sess, pcState, dcState,
    conn, authenticated, fpsr, nkey, cfps, cfm,
    consecutiveOverflows, lastPingResponse, fid, dpc,
    now, clockUs, nextFrameTime, anchor, lastAccept,
    pcH, fdTimers,
    pcE, was,
    pcA,
    mtx, pcL, sw, run, pcT,
    capturing, slotReady, targetFps, currentMonitorIdx, er, lastKeyframe,
    forceSync, framePool, sessionStarted, textureIndex, slots, writeIdx, readIdx, dropCount, inFlightMask,
    fd, released, pend,
    hostClip, lastSentHash, ignoreNextChange, wmPending, clipRun,
    ev, authOkSent, fpsAccepted, authFailed, failTimerRan, hs, sentFids,
    keyOwed, discCalls, ovfRun, ovfObs, pushed, popped, dropTotal, lastPop

transportVars == <<sess, pcState, dcState, conn, authenticated, fpsr, nkey, cfps, cfm,
                   consecutiveOverflows, lastPingResponse, fid, dpc>>
paceVars == <<clockUs, nextFrameTime, anchor, lastAccept>>
envVars == <<now, paceVars>>
handlerVars == <<pcH, fdTimers>>
encodeVars == <<pcE, was, pend>>
lockVars == <<mtx, pcL, sw>>
runVars == <<run, pcT>>
slotVars == <<slots, writeIdx, readIdx, dropCount, inFlightMask>>
frameVars == <<forceSync, framePool, sessionStarted, textureIndex, slotVars, fd, released>>
captureVars == <<capturing, slotReady, targetFps, currentMonitorIdx, er, lastKeyframe, frameVars>>
clipVars == <<hostClip, lastSentHash, ignoreNextChange, wmPending, clipRun>>
slotHist == <<pushed, popped, dropTotal, lastPop>>
histVars == <<authOkSent, fpsAccepted, authFailed, failTimerRan, hs, sentFids, keyOwed, discCalls,
              ovfRun, ovfObs, slotHist>>
vars == <<transportVars, envVars, handlerVars, encodeVars, pcA, lockVars, runVars, captureVars, clipVars, ev, histVars>>

\* ------------------------------------------------------------------ locks
\* The mutexes of the host and the threads that take them.  Each piece of
\* work of a thread is the sequence of its lock operations, in program
\* order; pcL[t] is the piece thread t is in and the operation it is at.
Mutexes == {"captureMutex", "g_monitorsMutex", "cs", "em", "multithread"}
Threads == {"handler", "encode", "stats", "capture"}
Idle == [job |-> "idle", at |-> 0]
NoSwitch == [at |-> "idle", i |-> -1, wasCapturing |-> FALSE, disc |-> 0]

Acq(m) == <<"acq", m>>
Rel(m) == <<"rel", m>>

\* MSG_MONITOR_SET: SwitchMonitor (captureMutex, g_monitorsMutex, the slot's
\* Reset, mkEnc through the resolution callback), then updateBounds, then
\* SendMonitorList.
LocksOfMonitorSet ==
    << Acq("captureMutex"), Acq("g_monitorsMutex"), Acq("cs"), Rel("cs"),
       Acq("em"), Rel("em"), Rel("g_monitorsMutex"), Rel("captureMutex"),
       Acq("g_monitorsMutex"), Rel("g_monitorsMutex"),
       Acq("g_monitorsMutex"), Rel("g_monitorsMutex") >>
\* MSG_FPS_SET: StartCapture (captureMutex, the slot's Reset)
LocksOfFpsSet == << Acq("captureMutex"), Acq("cs"), Rel("cs"), Rel("captureMutex") >>
\* AuthRequest: SendMonitorList
LocksOfAuth == << Acq("g_monitorsMutex"), Rel("g_monitorsMutex") >>
\* one iteration of the encode loop: Pop, Flush, Encode (which locks the
\* device's multithread protection) and Send
LocksOfEncodeLoop ==
    << Acq("cs"), Rel("cs"), Acq("em"), Rel("em"),
       Acq("em"), Acq("multithread"), Rel("multithread"), Rel("em") >>
\* one iteration of the stats loop: GetEncoded
LocksOfStatsNested == << Acq("em"), Acq("g_monitorsMutex"), Rel("g_monitorsMutex"), Rel("em") >>
LocksOfStats == << Acq("em"), Rel("em") >>
\* OnFrameArrived: CopyResource under the multithread protection, then Push
LocksOfFrameArrived == << Acq("multithread"), Rel("multithread"), Acq("cs"), Rel("cs") >>

LockJobs(t) ==
    IF t = "handler" THEN {"MonitorSet", "FpsSet", "Auth"}
    ELSE IF t = "encode" THEN {"EncodeLoop"}
    ELSE IF t = "stats" THEN {"Stats"}
    ELSE {"FrameArrived"}

LocksOf(job) ==
    IF job = "MonitorSet" THEN LocksOfMonitorSet
    ELSE IF job = "FpsSet" THEN LocksOfFpsSet
    ELSE IF job = "Auth" THEN LocksOfAuth
    ELSE IF job = "EncodeLoop" THEN LocksOfEncodeLoop
    ELSE IF job = "Stats" THEN LocksOfStats
    ELSE IF job = "FrameArrived" THEN LocksOfFrameArrived
    ELSE << >>

\* the lock operation thread t is at, <<"none", "none">> when it is idle
LockOp(t) == IF pcL[t] = Idle THEN <<"none", "none">> ELSE LocksOf(pcL[t].job)[pcL[t].at]
Holds(t) == {m \in Mutexes : mtx[m] = t}
\* t is at an acquire of a mutex that another thread holds
Blocked(t) == LockOp(t)[1] = "acq" /\ mtx[LockOp(t)[2]] # "none"
WaitsFor(t) == IF Blocked(t) THEN mtx[LockOp(t)[2]] ELSE "none"

\* ------------------------------------------------------------------ messages
\* A client message: its 4-byte magic, its total length in bytes and what
\* follows the magic.  For an AuthRequest `tail` is the byte sequence after
\* the magic (usernameLen, pinLen, username bytes, pin bytes); for the other
\* messages it holds the decoded fields.
Msg(mg, len, tail) == [mg |-> mg, len |-> len, tail |-> tail]
NoMsg == Msg("none", 0, <<>>)

\* Credentials handed to SetAuthCredentials: "abc" / "123456" as byte codes.
authUsername == <<97, 98, 99>>
authPin == <<49, 50, 51, 52, 53, 54>>

AuthBytes(tail) == Msg("AUTH", 4 + Len(tail), tail)
AuthRequestOf(u, p, extra) == AuthBytes(<<Len(u), Len(p)>> \o u \o p \o extra)

AuthMsgs ==
    { AuthRequestOf(authUsername, authPin, <<>>),                  \* matching
      AuthRequestOf(authUsername, authPin, <<0>>),                 \* matching, trailing byte
      AuthRequestOf(authUsername, <<49, 50, 51, 52, 53, 55>>, <<>>), \* wrong pin
      AuthRequestOf(<<97, 98, 100>>, authPin, <<>>),               \* wrong username
      AuthRequestOf(authUsername, SubSeq(authPin, 1, 5), <<>>),    \* pin prefix
      AuthRequestOf(authUsername, authPin \o <<55>>, <<>>),        \* pin with a suffix
      AuthBytes(<<4, 5>> \o authUsername \o authPin),              \* boundary shifted
      AuthBytes(<<3, 6>> \o authUsername \o SubSeq(authPin, 1, 5)),\* truncated body
      AuthBytes(<<3>>),                                            \* truncated header
      AuthBytes(<<>>),                                             \* magic only
      AuthRequestOf(<<>>, <<>>, <<>>) }                            \* empty credentials

FpsMsgs ==
    { Msg("FPSC", 7, <<ReqFps, 0>>), Msg("FPSC", 7, <<ReqFps, 1>>),
      Msg("FPSC", 7, <<ReqFps, 3>>), Msg("FPSC", 7, <<0, 0>>),
      Msg("FPSC", 6, <<ReqFps, 0>>) }

MonMsgs == { Msg("MONS", 5, <<i>>) : i \in 0..NumMonitors }

ClipMsgs == { Msg("CLPT", 8 + 1, <<t>>) : t \in 1..MaxClipText } \cup { Msg("CLPR", 4, <<>>) }

OtherMsgs ==
    { Msg("PNGP", 16, <<>>), Msg("PNGP", 15, <<>>),
      Msg("KEYR", 4, <<>>), Msg("KEYR", 5, <<>>),
      Msg("MOVE", 12, <<>>), Msg("XXXX", 4, <<>>), Msg("PNGP", 3, <<>>) }

ClientMsgs == AuthMsgs \cup FpsMsgs \cup MonMsgs \cup ClipMsgs \cup OtherMsgs

InputMagics == {"MOVE", "MBTN", "MWHL", "KEY "}
ClipMagics == {"CLPT", "CLPI", "CLPR"}

\* ------------------------------------------------------------------ authentication
ValidateAuthPinOnly(username, pin) == pin = authPin

ValidateAuth(username, pin) == username = authUsername /\ pin = authPin

\* HandleAuthRequest's decision: which of its four exits a message takes.
AuthOutcome(m) ==
    IF m.len < AUTH_HDR THEN "short"
    ELSE LET usernameLen == m.tail[1]
             pinLen == m.tail[2]
             expectedLen == AUTH_HDR + usernameLen + pinLen
         IN  IF m.len < expectedLen THEN "badlen"
             ELSE LET username == SubSeq(m.tail, 3, 2 + usernameLen)
                      pin == SubSeq(m.tail, 3 + usernameLen, 2 + usernameLen + pinLen)
                  IN  IF ValidateAuth(username, pin) THEN "ok" ELSE "invalid"

AuthError(outcome) ==
    CASE outcome = "short" -> "Invalid auth message"
      [] outcome = "badlen" -> "Invalid auth message length"
      [] OTHER -> "Invalid credentials"

\* ------------------------------------------------------------------ channel
ChannelOpen == dcState = "open"

\* SafeSend: the messages that reach the channel.
SafeSend(msgs) == IF ChannelOpen THEN msgs ELSE <<>>

AuthResponseMsg(success, error) ==
    [k |-> "AUTR", success |-> IF success THEN 1 ELSE 0, error |-> IF success THEN "" ELSE error]
HostInfoMsg == [k |-> "HOST", fps |-> HostFps]
MonitorListFirst(cur) == [k |-> "MONL", count |-> NumMonitors, current |-> 0]
MonitorListMsg(cur) == [k |-> "MONL", count |-> NumMonitors, current |-> cur]

Ev(op, msg, out, fx) ==
    [op |-> op, msg |-> msg, out |-> out, fx |-> fx, obs |-> 0, path |-> ""]
EvObs(op, out, obs) ==
    [op |-> op, msg |-> NoMsg, out |-> out, fx |-> "none", obs |-> obs, path |-> ""]

Min(a, b) == IF a < b THEN a ELSE b

\* The run of consecutive WM_CLIPBOARDUPDATE events of one session that found
\* the same text on the clipboard: the text, the number of events so far and
\* the number of MSG_CLIPBOARD_TEXT messages with that text the events put on
\* the channel (both counted up to 2).
NoClipRun == [sess |-> 0, text |-> 0, events |-> 0, sent |-> 0]

Kinds(out) == [i \in DOMAIN out |-> out[i].k]
HasKind(out, k) == \E i \in DOMAIN out : out[i].k = k

\* ------------------------------------------------------------------ history
AuthOkIn(out) == \E i \in DOMAIN out : out[i].k = "AUTR" /\ out[i].success = 1
Take(q, n) == SubSeq(q, 1, IF Len(q) < n THEN Len(q) ELSE n)

\* What an action that put `out` on the channel adds to the session history:
\* whether AuthResponse(success=1) has been sent, and the kinds of the
\* messages sent from that AuthResponse on while HandleAuthRequest runs.
Emitted(out) ==
    /\ authOkSent' = (authOkSent \/ AuthOkIn(out))
    /\ hs' = IF AuthOkIn(out) THEN Kinds(out)
             ELSE IF hs # <<>> THEN Take(hs \o Kinds(out), HsCap) ELSE hs

\* ------------------------------------------------------------------ initial state
NoFrame == [size |-> 0, isKey |-> FALSE]

\* struct FrameData as default-constructed: tex = nullptr, poolIdx = -1.  A
\* captured frame has tex # 0 (the ordinal of the capture that filled the
\* texture stands for the pointer and the timestamp); inPool says whether
\* the texture object is still the one texturePool[poolIdx] points to.
NoFrameData == [tex |-> 0, poolIdx |-> -1, inPool |-> FALSE]

\* The state after main has constructed the transport (whose constructor runs
\* Setup), the capture engine, the encoder and the clipboard bridge, with the
\* sender's frame counter at lowFid/highFid (two 16-bit halves).
InitWith(f) ==
    /\ sess = 1 /\ pcState = "new" /\ dcState = "none"
    /\ conn = FALSE /\ authenticated = FALSE /\ fpsr = FALSE /\ nkey = TRUE
    /\ cfps = 60 /\ cfm = 0
    /\ consecutiveOverflows = 0 /\ lastPingResponse = 0 /\ fid = f /\ dpc = 0
    /\ now = T0
    /\ clockUs = ClockT0 /\ nextFrameTime = 0 /\ anchor = 0 /\ lastAccept = -1
    /\ pcH = "idle" /\ fdTimers = <<>>
    /\ pcE = "top" /\ was = FALSE /\ pend = NoFrame
    /\ pcA = "top"
    /\ mtx = [m \in Mutexes |-> "none"] /\ pcL = [t \in Threads |-> Idle]
    /\ sw = NoSwitch
    /\ run = TRUE /\ pcT = "loop"
    /\ capturing = FALSE /\ slotReady = FALSE /\ targetFps = HostFps
    /\ currentMonitorIdx = 0 /\ er = TRUE /\ lastKeyframe = T0 - KEYFRAME_INTERVAL
    /\ forceSync = TRUE /\ framePool = TRUE /\ sessionStarted = FALSE /\ textureIndex = 0
    /\ slots = [i \in 0..2 |-> NoFrameData] /\ writeIdx = 0 /\ readIdx = -1
    /\ dropCount = 0 /\ inFlightMask = {} /\ fd = NoFrameData /\ released = 0
    /\ hostClip = 0 /\ lastSentHash = 0 /\ ignoreNextChange = FALSE /\ wmPending = FALSE
    /\ clipRun = NoClipRun
    /\ ev = Ev("init", NoMsg, <<>>, "none")
    /\ authOkSent = FALSE /\ fpsAccepted = FALSE /\ authFailed = FALSE
    /\ failTimerRan = FALSE /\ hs = <<>> /\ sentFids = <<>>
    /\ keyOwed = TRUE /\ discCalls = 0 /\ ovfRun = 0 /\ ovfObs = 0
    /\ pushed = 0 /\ popped = 0 /\ dropTotal = 0 /\ lastPop = 0

Init == InitWith(<<0, 0>>)

\* ------------------------------------------------------------------ frame slot
\* The slot's event is `slotReady`: Push sets it, Pop and Reset reset it, all
\* inside the critical section, so it is set exactly when readIdx >= 0.

\* FrameSlot::Push(tex, ts, fence, poolIdx) for the frame f
Push(f) ==
    LET idx == writeIdx
        w1 == (writeIdx + 1) % 3
        w2 == IF w1 = readIdx THEN (w1 + 1) % 3 ELSE w1
        old == slots[idx].poolIdx
        m1 == IF old >= 0 THEN inFlightMask \ {old} ELSE inFlightMask
    IN  /\ writeIdx' = w2
        /\ slots' = [slots EXCEPT ![idx] = f]
        /\ inFlightMask' = (IF f.poolIdx >= 0 THEN m1 \cup {f.poolIdx} ELSE m1)
        /\ dropCount' = (IF readIdx >= 0 THEN dropCount + 1 ELSE dropCount)
        /\ readIdx' = idx

\* FrameSlot::Pop past its wait, inside the critical section: the frame it
\* hands out (NoFrameData when it returns false) and the slot it leaves.
PopOtherCell == IF readIdx < 0 THEN NoFrameData ELSE slots[(readIdx + 1) % 3]
PopFrame == IF readIdx < 0 THEN NoFrameData ELSE slots[readIdx]

PopSlots == IF readIdx < 0 THEN slots ELSE [slots EXCEPT ![readIdx] = NoFrameData]

\* FrameSlot::Pop returns true: the wait found the event signalled and, inside
\* the critical section, readIdx >= 0.
PopOnSignal == slotReady

PopReturnsFrame == slotReady /\ readIdx >= 0

\* FrameSlot::MarkReleased(idx): the mask it leaves
MarkReleasedNever(idx) == inFlightMask
MarkReleased(idx) == IF idx >= 0 THEN inFlightMask \ {idx} ELSE inFlightMask

\* The calls of MarkReleased with a pool index so far, after one for idx.
MarkedTwice(idx) == IF idx >= 0 THEN released + 2 ELSE released

ReleasedAfter(idx) == IF idx >= 0 THEN released + 1 ELSE released

\* FrameSlot::IsInFlight
IsInFlight(idx) == idx >= 0 /\ idx \in inFlightMask

\* FrameSlot::Reset
Reset ==
    /\ inFlightMask' = {}
    /\ slots' = [i \in 0..2 |-> NoFrameData]
    /\ writeIdx' = 0 /\ readIdx' = -1
    /\ dropCount' = dropCount

\* ScreenCapture::FindAvailableTexture: the index it returns, the
\* textureIndex it leaves, and whether it fell back on a texture in flight.
FindAvailableTexture ==
    LET free == {i \in 0..(TEX_POOL_SIZE - 1) : ~IsInFlight((textureIndex + i) % TEX_POOL_SIZE)}
    IN  IF free # {}
          THEN LET i == CHOOSE x \in free : \A y \in free : x <= y
                   idx == (textureIndex + i) % TEX_POOL_SIZE
               IN  [idx |-> idx, next |-> idx + 1, conflict |-> FALSE]
          ELSE [idx |-> textureIndex % TEX_POOL_SIZE, next |-> textureIndex + 1, conflict |-> TRUE]

\* ------------------------------------------------------------------ transport callbacks
\* ForceDisconnect past its `if (!conn) return`: clear the session flags,
\* close channel and peer connection, run the disconnect callback
\* (main: PauseCapture).
ForceDisconnect ==
    /\ conn' = FALSE /\ fpsr' = FALSE /\ authenticated' = FALSE
    /\ consecutiveOverflows' = 0
    /\ dcState' = IF dcState = "open" THEN "closed" ELSE dcState
    /\ pcState' = "down"
    /\ capturing' = FALSE
    /\ discCalls' = discCalls + 1

fdVars == <<conn, fpsr, authenticated, consecutiveOverflows, dcState, pcState, capturing, discCalls>>

\* SetRemote(offer) -> Setup: the previous peer connection is closed and
\* replaced.  Closing it may still deliver its state-change callback before
\* `conn = false` is stored (disconnect callback runs) or after (it does not).
Setup ==
    /\ sess < MaxSessions
    /\ \E cb \in (IF conn THEN BOOLEAN ELSE {FALSE}) :
          capturing' = (capturing /\ ~cb)
    /\ sess' = sess + 1 /\ pcState' = "new" /\ dcState' = "none"
    /\ conn' = FALSE /\ nkey' = TRUE /\ fpsr' = FALSE /\ authenticated' = FALSE
    /\ consecutiveOverflows' = 0 /\ lastPingResponse' = 0
    /\ ev' = Ev("Setup", NoMsg, <<>>, "none")
    /\ authOkSent' = FALSE /\ fpsAccepted' = FALSE /\ authFailed' = FALSE
    /\ failTimerRan' = FALSE /\ hs' = <<>> /\ sentFids' = <<>>
    /\ keyOwed' = TRUE /\ discCalls' = 0 /\ ovfRun' = 0 /\ ovfObs' = 0
    /\ UNCHANGED <<cfps, cfm, fid, dpc, now, paceVars, handlerVars, encodeVars, pcA, lockVars, runVars,
                   slotReady, targetFps, currentMonitorIdx, er, lastKeyframe, frameVars,
                   clipVars, slotHist>>

\* onStateChange(Connected)
PcConnected ==
    /\ pcState = "new"
    /\ pcState' = "connected"
    /\ conn' = TRUE
    /\ nkey' = (IF conn THEN nkey ELSE TRUE)
    /\ lastPingResponse' = (IF conn THEN lastPingResponse ELSE now)
    /\ keyOwed' = (IF conn THEN keyOwed ELSE TRUE)
    /\ ev' = Ev("PcConnected", NoMsg, <<>>, "none")
    /\ UNCHANGED <<sess, dcState, authenticated, fpsr, cfps, cfm, consecutiveOverflows, fid, dpc,
                   now, paceVars, handlerVars, encodeVars, pcA, lockVars, runVars, captureVars, clipVars,
                   authOkSent, fpsAccepted, authFailed, failTimerRan, hs, sentFids, discCalls,
                   ovfRun, ovfObs, slotHist>>

\* onStateChange(s) for s other than Connected
PcDown ==
    /\ pcState = "connected"
    /\ pcState' = "down"
    /\ conn' = FALSE
    /\ IF conn
         THEN /\ fpsr' = FALSE /\ authenticated' = FALSE /\ consecutiveOverflows' = 0
              /\ capturing' = FALSE /\ discCalls' = discCalls + 1
         ELSE UNCHANGED <<fpsr, authenticated, consecutiveOverflows, capturing, discCalls>>
    /\ ev' = Ev("PcDown", NoMsg, <<>>, "none")
    /\ UNCHANGED <<sess, dcState, nkey, cfps, cfm, lastPingResponse, fid, dpc,
                   now, paceVars, handlerVars, encodeVars, pcA, lockVars, runVars,
                   slotReady, targetFps, currentMonitorIdx, er, lastKeyframe, frameVars, clipVars,
                   authOkSent, fpsAccepted, authFailed, failTimerRan, hs, sentFids, keyOwed,
                   ovfRun, ovfObs, slotHist>>

\* onDataChannel("screen") followed by the channel's onOpen
DcOpen ==
    /\ pcState = "connected" /\ dcState = "none"
    /\ dcState' = "open"
    /\ conn' = TRUE /\ nkey' = TRUE /\ authenticated' = FALSE
    /\ lastPingResponse' = now /\ consecutiveOverflows' = 0
    /\ keyOwed' = TRUE
    /\ ev' = Ev("DcOpen", NoMsg, <<>>, "none")
    /\ UNCHANGED <<sess, pcState, fpsr, cfps, cfm, fid, dpc,
                   now, paceVars, handlerVars, encodeVars, pcA, lockVars, runVars, captureVars, clipVars,
                   authOkSent, fpsAccepted, authFailed, failTimerRan, hs, sentFids, discCalls,
                   ovfRun, ovfObs, slotHist>>

\* the channel's onClosed
DcClosed ==
    /\ dcState = "open"
    /\ dcState' = "closed"
    /\ conn' = FALSE /\ fpsr' = FALSE /\ authenticated' = FALSE
    /\ consecutiveOverflows' = 0
    /\ ev' = Ev("DcClosed", NoMsg, <<>>, "none")
    /\ UNCHANGED <<sess, pcState, nkey, cfps, cfm, lastPingResponse, fid, dpc,
                   now, paceVars, handlerVars, encodeVars, pcA, lockVars, runVars, captureVars, clipVars, histVars>>

\* The detached thread HandleAuthRequest starts on invalid credentials:
\* sleep 100 ms, ForceDisconnect("Authentication failed").
FdTimerFire ==
    /\ fdTimers # <<>>
    /\ fdTimers' = Tail(fdTimers)
    /\ failTimerRan' = (failTimerRan \/ Head(fdTimers) = sess)
    /\ IF conn THEN ForceDisconnect ELSE UNCHANGED fdVars
    /\ ev' = Ev("FdTimerFire", NoMsg, <<>>, "none")
    /\ UNCHANGED <<sess, nkey, cfps, cfm, lastPingResponse, fid, dpc,
                   now, paceVars, pcH, encodeVars, pcA, lockVars, runVars,
                   slotReady, targetFps, currentMonitorIdx, er, lastKeyframe, frameVars, clipVars,
                   authOkSent, fpsAccepted, authFailed, hs, sentFids, keyOwed, ovfRun, ovfObs, slotHist>>

\* Wall-clock time advances.
Tick ==
    /\ now < T0 + MaxTicks * TickMs
    /\ now' = now + TickMs
    /\ ev' = Ev("Tick", NoMsg, <<>>, "none")
    /\ UNCHANGED <<paceVars, transportVars, handlerVars, encodeVars, pcA, lockVars, runVars, captureVars, clipVars, histVars>>

\* ------------------------------------------------------------------ clipboard bridge
\* bufferedAmount() as a sender may observe it, on either side of the
\* threshold it compares with: BT/2 for clipboard and audio, BT before a
\* video frame is fragmented, 2*BT at every 16th chunk.
BufLevels == {BT \div 2, BT \div 2 + 1}
SendBufLevels == {BT, BT + 1}
MidBufLevels == {BTH, BTH + 1}

\* HashData over the clipboard texts of the model (text t stands for its
\* bytes): distinct texts hash differently and no text hashes to the initial
\* lastSentHash of 0.
HashData(t) == 1000 + t

ClipTextMsg(t) == [k |-> "CLPT", text |-> t]

\* WebRTCServer::SendClipboard behind main's OnChange lambda, with b the
\* bufferedAmount() it reads.
SendClipboard(data, b) ==
    IF ~conn \/ ~authenticated THEN <<>>
    ELSE IF ~ChannelOpen THEN <<>>
    ELSE IF b > BT \div 2 THEN <<>>
    ELSE SafeSend(<<data>>)

OnClipboardResends(b) ==
    IF hostClip = 0 THEN [hash |-> lastSentHash, out |-> <<>>]
    ELSE [hash |-> HashData(hostClip), out |-> SendClipboard(ClipTextMsg(hostClip), b)]

\* ClipboardSync::OnClipboardChanged: the new lastSentHash and what is sent.
OnClipboardChanged(b) ==
    IF hostClip = 0 \/ HashData(hostClip) = lastSentHash
      THEN [hash |-> lastSentHash, out |-> <<>>]
      ELSE [hash |-> HashData(hostClip), out |-> SendClipboard(ClipTextMsg(hostClip), b)]

TextsIn(out, t) == Cardinality({i \in DOMAIN out : out[i].k = "CLPT" /\ out[i].text = t})

ClipRunAfter(out) ==
    IF clipRun.sess = sess /\ clipRun.text = hostClip
      THEN [clipRun EXCEPT !.events = Min(2, @ + 1),
                           !.sent = Min(2, @ + TextsIn(out, hostClip))]
      ELSE [sess |-> sess, text |-> hostClip, events |-> 1,
            sent |-> Min(2, TextsIn(out, hostClip))]

\* The host user (or a host program) puts text t on the clipboard; the OS
\* posts WM_CLIPBOARDUPDATE to the bridge's window.
HostCopyOf(texts) ==
    /\ ~wmPending
    /\ \E t \in texts : hostClip' = t
    /\ wmPending' = TRUE
    /\ ev' = Ev("HostCopy", NoMsg, <<>>, "none")
    /\ UNCHANGED <<transportVars, envVars, handlerVars, encodeVars, pcA, lockVars, runVars, captureVars,
                   lastSentHash, ignoreNextChange, clipRun, histVars>>

HostCopy == HostCopyOf(1..MaxClipText)

\* ClipboardSync::WndProc(WM_CLIPBOARDUPDATE) on the clipboard monitor thread;
\* the run of events is recorded where `recorded`.
WndProcEvent(recorded) ==
    /\ wmPending
    /\ wmPending' = FALSE
    /\ ignoreNextChange' = FALSE
    /\ \E b \in BufLevels :
         LET r == IF ignoreNextChange THEN [hash |-> lastSentHash, out |-> <<>>]
                  ELSE OnClipboardChanged(b)
         IN  /\ lastSentHash' = r.hash
             /\ ev' = EvObs("WndProc", r.out, b)
             /\ Emitted(r.out)
             /\ clipRun' = (IF recorded THEN ClipRunAfter(r.out) ELSE clipRun)
    /\ UNCHANGED <<transportVars, envVars, handlerVars, encodeVars, pcA, lockVars, runVars, captureVars,
                   hostClip, fpsAccepted, authFailed, failTimerRan, sentFids, keyOwed, discCalls,
                   ovfRun, ovfObs, slotHist>>

WndProc == WndProcEvent(FALSE)

\* ------------------------------------------------------------------ message handler
authSt == <<authenticated, pcH, fdTimers, authFailed>>
fpsSt == <<fpsr, cfps, cfm, fpsAccepted>>
pingSt == <<lastPingResponse, consecutiveOverflows>>
keySt == <<nkey, keyOwed>>
deliverFixed == <<sess, pcState, dcState, conn, fid, dpc, now, paceVars, encodeVars, pcA, lockVars, runVars,
                  failTimerRan, sentFids, discCalls, ovfRun, ovfObs, slotHist>>

\* A handler run that changes nothing and sends nothing.
Ignore(m) ==
    /\ ev' = Ev("Msg", m, <<>>, "none")
    /\ UNCHANGED <<authSt, fpsSt, pingSt, keySt, captureVars, clipVars, authOkSent, hs>>

\* HandleAuthRequest up to its first send.  On matching credentials the
\* flag is stored and the handler goes on to SendAuthResponse(true); the
\* other exits answer success=0 at once, and "Invalid credentials" also
\* starts the detached disconnect thread.
HandleAuthRequest(m) ==
    LET outcome == AuthOutcome(m) IN
    IF outcome = "ok"
      THEN /\ authenticated' = TRUE
           /\ pcH' = "sendResp"
           /\ ev' = Ev("Msg", m, <<>>, "none")
           /\ UNCHANGED <<fdTimers, authFailed, authOkSent, hs,
                          fpsSt, pingSt, keySt, captureVars, clipVars>>
      ELSE /\ LET out == SafeSend(<<AuthResponseMsg(FALSE, AuthError(outcome))>>)
              IN  ev' = Ev("Msg", m, out, "none") /\ Emitted(out)
           /\ IF outcome = "invalid"
                THEN /\ Len(fdTimers) < MaxTimers
                     /\ fdTimers' = Append(fdTimers, sess)
                     /\ authFailed' = TRUE
                ELSE UNCHANGED <<fdTimers, authFailed>>
           /\ UNCHANGED <<authenticated, pcH, fpsSt, pingSt, keySt, captureVars, clipVars>>

\* ClipboardSync::HandleMessage behind the clipboard handler of main.
ClipboardHandler(m) ==
    /\ UNCHANGED <<authSt, fpsSt, pingSt, keySt, captureVars>>
    /\ IF m.mg = "CLPT"
         THEN LET t == m.tail[1] IN
              /\ IF HashData(t) = lastSentHash
                   THEN UNCHANGED clipVars
                   ELSE /\ hostClip' = t /\ ignoreNextChange' = TRUE
                        /\ lastSentHash' = HashData(t) /\ wmPending' = TRUE
                        /\ UNCHANGED clipRun
              /\ ev' = Ev("Msg", m, <<>>, "clip")
              /\ UNCHANGED <<authOkSent, hs>>
         ELSE IF m.mg = "CLPR"
         THEN \E b \in BufLevels :
                LET r == OnClipboardChanged(b) IN
                /\ ignoreNextChange' = FALSE
                /\ lastSentHash' = r.hash
                /\ ev' = [Ev("Msg", m, r.out, "clip") EXCEPT !.obs = b]
                /\ Emitted(r.out)
                /\ UNCHANGED <<hostClip, wmPending, clipRun>>
         ELSE /\ ev' = Ev("Msg", m, <<>>, "clip")
              /\ UNCHANGED <<clipVars, authOkSent, hs>>

PongMsg == [k |-> "PONG"]
FpsAckMsg(ac, md) == [k |-> "FPSA", fps |-> ac, mode |-> md]

\* MSG_PING
HandlePing(m) ==
    /\ lastPingResponse' = now
    /\ consecutiveOverflows' = 0
    /\ LET out == SafeSend(<<PongMsg>>) IN ev' = Ev("Msg", m, out, "none") /\ Emitted(out)
    /\ UNCHANGED <<authSt, fpsSt, keySt, captureVars, clipVars>>

\* ScreenCapture::SetFPS: the targetFps it leaves, what it returns, and the
\* forceSync it leaves.
SetFPSFromZero(fps) == IF fps < 0 \/ fps > 240 THEN targetFps ELSE fps
SetFPS(fps) == IF fps < 1 \/ fps > 240 THEN targetFps ELSE fps

SetFPSReturns(fps) == ~(fps < 1 \/ fps > 240)

SetFPSSync(fps) == IF fps < 1 \/ fps > 240 THEN forceSync ELSE (forceSync \/ targetFps # fps)

\* ScreenCapture::GetCurrentFPS
GetCurrentFPS == targetFps

\* A call of ScreenCapture::SetFPS(n) on the capture object as it is.
CallSetFPS(inputs) ==
    /\ \E n \in inputs :
         /\ targetFps' = SetFPS(n)
         /\ forceSync' = SetFPSSync(n)
         /\ ev' = [op |-> "SetFPS", msg |-> NoMsg, out |-> <<>>, fx |-> "none",
                   obs |-> n, path |-> IF SetFPSReturns(n) THEN "true" ELSE "false"]
    /\ UNCHANGED <<transportVars, envVars, handlerVars, encodeVars, pcA, lockVars, runVars,
                   capturing, slotReady, currentMonitorIdx, er, lastKeyframe,
                   framePool, sessionStarted, textureIndex, slotVars, fd, released, clipVars, histVars>>

\* MSG_FPS_SET, with main's FPS callback: SetFPS, StartCapture if paused.
HandleFpsSet(m) ==
    LET fps == m.tail[1]
        md == m.tail[2]
        ac == IF md = 1 THEN HostFps ELSE fps
    IN  IF fps >= 1 /\ fps <= 240 /\ md <= 2
          THEN /\ cfps' = ac /\ cfm' = md /\ fpsr' = TRUE
               /\ fpsAccepted' = TRUE
               /\ targetFps' = SetFPS(ac)
               /\ capturing' = TRUE
               /\ slotReady' = (IF capturing THEN slotReady ELSE FALSE)
               /\ forceSync' = (IF capturing THEN SetFPSSync(ac) ELSE TRUE)
               /\ IF capturing THEN UNCHANGED <<textureIndex, slotVars>>
                               ELSE Reset /\ textureIndex' = 0
               /\ fd' = fd /\ released' = released /\ framePool' = framePool
               /\ sessionStarted' = (IF capturing THEN sessionStarted ELSE TRUE)
               /\ LET out == SafeSend(<<FpsAckMsg(ac, md)>>)
                  IN  ev' = Ev("Msg", m, out, "none") /\ Emitted(out)
               /\ UNCHANGED <<authSt, pingSt, keySt, currentMonitorIdx, er, lastKeyframe, clipVars>>
          ELSE Ignore(m)

\* MSG_REQUEST_KEY
HandleRequestKey(m) ==
    /\ nkey' = TRUE /\ keyOwed' = TRUE
    /\ ev' = Ev("Msg", m, <<>>, "none")
    /\ UNCHANGED <<authSt, fpsSt, pingSt, captureVars, clipVars, authOkSent, hs>>

\* ScreenCapture::SwitchMonitor(i) with the resolution callback it runs
\* (mkEnc): what it returns and the state it leaves.  initOk is whether
\* InitializeMonitor gets its capture item (it throws before it touches the
\* texture pool otherwise, and after it has stored the monitor's refresh
\* rate in targetFps); encOk is whether the AV1Encoder constructor succeeds.
\* A StartCapture on the closed, never started session that a failed switch
\* can leave calls through a null captureSession: the process faults there,
\* which is a behaviour that takes no further step.
SwitchMonitorUpToSize(i, initOk) ==
    i >= 0 /\ i <= NumMonitors /\ (i = currentMonitorIdx \/ initOk)
SwitchMonitorReturns(i, initOk) ==
    i >= 0 /\ i < NumMonitors /\ (i = currentMonitorIdx \/ initOk)

SwitchMonitor(i, initOk, encOk) ==
    IF i < 0 \/ i >= NumMonitors \/ i = currentMonitorIdx
      THEN UNCHANGED captureVars
      ELSE /\ slotReady' = FALSE
           /\ capturing' = (capturing /\ initOk)
           /\ Reset /\ textureIndex' = 0
           /\ forceSync' = (forceSync \/ (capturing /\ initOk))
           /\ framePool' = initOk
           /\ sessionStarted' = (IF initOk THEN capturing ELSE sessionStarted)
           /\ fd' = (IF initOk THEN [fd EXCEPT !.inPool = FALSE] ELSE fd)
           /\ released' = released
           /\ targetFps' = HostFps
           /\ IF initOk
                THEN /\ currentMonitorIdx' = i
                     /\ er' = encOk
                     /\ lastKeyframe' = (IF encOk THEN now - KEYFRAME_INTERVAL
                                         ELSE lastKeyframe)
                ELSE UNCHANGED <<currentMonitorIdx, er, lastKeyframe>>

\* SwitchMonitor(i) past its two early returns, in the three stretches that
\* another thread can come between: up to the slot's Reset; InitializeMonitor
\* and the resolution callback; the restart of the capture with the rest of
\* the MSG_MONITOR_SET handler.  sw is where the handler thread is, with the
\* index, wasCapturing and the number of disconnect callbacks run when it
\* entered.  The two lock_guards of SwitchMonitor (capture.hpp:520-521) are
\* held from the entry to the return.
SwitchHolds == IF sw.at = "idle" THEN {} ELSE {"captureMutex", "g_monitorsMutex"}

SwitchEnter(inputs) ==
    /\ sw = NoSwitch /\ pcH = "idle" /\ ChannelOpen /\ authenticated
    /\ \E i \in inputs :
         /\ i >= 0 /\ i < NumMonitors /\ i # currentMonitorIdx
         /\ sw' = [at |-> "init", i |-> i, wasCapturing |-> capturing, disc |-> discCalls]
    /\ capturing' = FALSE
    /\ framePool' = FALSE
    /\ slotReady' = FALSE
    /\ Reset /\ textureIndex' = 0
    /\ ev' = Ev("SwitchEnter", NoMsg, <<>>, "none")
    /\ UNCHANGED <<transportVars, envVars, handlerVars, encodeVars, pcA, mtx, pcL, runVars,
                   targetFps, currentMonitorIdx, er, lastKeyframe, forceSync, sessionStarted,
                   fd, released, clipVars, histVars>>

\* InitializeMonitor, then onResolutionChange (main: mkEnc)
SwitchInit ==
    /\ sw.at = "init"
    /\ targetFps' = HostFps
    /\ \E initOk \in BOOLEAN, encOk \in BOOLEAN :
         IF initOk
           THEN /\ framePool' = TRUE /\ sessionStarted' = FALSE
                /\ currentMonitorIdx' = sw.i
                /\ er' = encOk
                /\ lastKeyframe' = (IF encOk THEN now - KEYFRAME_INTERVAL ELSE lastKeyframe)
                /\ fd' = [fd EXCEPT !.inPool = FALSE]
                /\ sw' = [sw EXCEPT !.at = "restart"]
                /\ ev' = [op |-> "ResolutionChange", msg |-> NoMsg, out |-> <<>>,
                          fx |-> [held |-> SwitchHolds, was |-> sw.wasCapturing],
                          obs |-> capturing, path |-> "init"]
           ELSE /\ sw' = NoSwitch
                /\ ev' = [Ev("SwitchInit", NoMsg, <<>>, "none") EXCEPT !.path = "throw"]
                /\ UNCHANGED <<framePool, sessionStarted, currentMonitorIdx, er, lastKeyframe, fd>>
    /\ UNCHANGED <<transportVars, envVars, handlerVars, encodeVars, pcA, mtx, pcL, runVars,
                   capturing, slotReady, forceSync, textureIndex, slotVars, released,
                   clipVars, histVars>>

\* if (wasCapturing) { forceSync = true; ... capturing = true; } return true;
\* then the handler: keyframe-needed, SendMonitorList, SendHostInfo
SwitchRestart ==
    /\ sw.at = "restart"
    /\ sw' = NoSwitch
    /\ IF sw.wasCapturing
         THEN forceSync' = TRUE /\ sessionStarted' = TRUE /\ capturing' = TRUE
         ELSE UNCHANGED <<forceSync, sessionStarted, capturing>>
    /\ nkey' = TRUE /\ keyOwed' = TRUE
    /\ LET out == SafeSend(<<MonitorListMsg(currentMonitorIdx), HostInfoMsg>>)
       IN  /\ ev' = [Ev("SwitchRestart", NoMsg, out, "none") EXCEPT !.obs = sw.disc]
           /\ Emitted(out)
    /\ UNCHANGED <<sess, pcState, dcState, conn, authenticated, fpsr, cfps, cfm,
                   consecutiveOverflows, lastPingResponse, fid, dpc,
                   envVars, handlerVars, encodeVars, pcA, mtx, pcL, runVars,
                   slotReady, targetFps, currentMonitorIdx, er, lastKeyframe,
                   framePool, textureIndex, slotVars, fd, released, clipVars,
                   fpsAccepted, authFailed, failTimerRan, sentFids, discCalls,
                   ovfRun, ovfObs, slotHist>>

\* ScreenCapture::GetCurrentMonitorIndex
GetCurrentMonitorIndex == currentMonitorIdx

\* A call of ScreenCapture::SwitchMonitor(i) on the capture object as it is.
CallSwitchMonitor(inputs) ==
    /\ \E i \in inputs, initOk \in BOOLEAN, encOk \in BOOLEAN :
         /\ SwitchMonitor(i, initOk, encOk)
         /\ ev' = [op |-> "SwitchMonitor", msg |-> NoMsg, out |-> <<>>,
                   fx |-> IF initOk THEN "init" ELSE "throw",
                   obs |-> i,
                   path |-> IF SwitchMonitorReturns(i, initOk) THEN "true" ELSE "false"]
    /\ UNCHANGED <<transportVars, envVars, handlerVars, encodeVars, pcA, lockVars, runVars, clipVars, histVars>>

\* MSG_MONITOR_SET with main's monitor callback: on success keyframe-needed,
\* SendMonitorList and SendHostInfo.
HandleMonitorSet(m) ==
    LET i == m.tail[1] IN
    \E initOk \in BOOLEAN, encOk \in BOOLEAN :
      /\ SwitchMonitor(i, initOk, encOk)
      /\ IF SwitchMonitorReturns(i, initOk)
           THEN /\ nkey' = TRUE /\ keyOwed' = TRUE
                /\ LET out == SafeSend(<<MonitorListMsg(GetCurrentMonitorIndex'), HostInfoMsg>>)
                   IN  ev' = Ev("Msg", m, out, "none") /\ Emitted(out)
           ELSE /\ ev' = Ev("Msg", m, <<>>, "none")
                /\ UNCHANGED <<keySt, authOkSent, hs>>
      /\ UNCHANGED <<authSt, fpsSt, pingSt, clipVars>>

\* InputHandler::HandleMessage: the event is injected into the host OS.
HandleInput(m) ==
    /\ ev' = Ev("Msg", m, <<>>, "input")
    /\ UNCHANGED <<authSt, fpsSt, pingSt, keySt, captureVars, clipVars, authOkSent, hs>>

GateOpen == FALSE

\* The authentication gate of HandleMsg.
NotAuthenticated == ~authenticated

\* WebRTCServer::HandleMsg
HandleMsg(m) ==
    IF m.len < 4 THEN Ignore(m)
    ELSE IF m.mg = "AUTH" THEN HandleAuthRequest(m)
    ELSE IF NotAuthenticated THEN Ignore(m)
    ELSE IF m.mg \in InputMagics THEN HandleInput(m)
    ELSE IF m.mg \in ClipMagics THEN ClipboardHandler(m)
    ELSE IF m.mg = "PNGP" /\ m.len = 16 THEN HandlePing(m)
    ELSE IF m.mg = "FPSC" /\ m.len = 7 THEN HandleFpsSet(m)
    ELSE IF m.mg = "KEYR" /\ m.len = 4 THEN HandleRequestKey(m)
    ELSE IF m.mg = "MONS" /\ m.len = 5 THEN HandleMonitorSet(m)
    ELSE Ignore(m)

\* The channel's onMessage: a client message out of `msgs` arrives on the
\* open channel and HandleMsg runs on it.
OnMessage(msgs) ==
    /\ pcH = "idle"
    /\ ChannelOpen
    /\ \E m \in msgs : HandleMsg(m)
    /\ UNCHANGED deliverFixed

Deliver == OnMessage(ClientMsgs)

\* The rest of HandleAuthRequest's success branch, one send per step.
handshakeFixed == <<transportVars, envVars, fdTimers, encodeVars, pcA, lockVars, runVars, captureVars,
                    fpsAccepted, authFailed, failTimerRan, sentFids, keyOwed, discCalls,
                    ovfRun, ovfObs, slotHist>>

AuthSendResponse ==
    /\ pcH = "sendResp"
    /\ pcH' = "sendHost"
    /\ LET out == SafeSend(<<AuthResponseMsg(TRUE, "")>>)
       IN  ev' = Ev("AuthSendResponse", NoMsg, out, "none") /\ Emitted(out)
    /\ UNCHANGED <<handshakeFixed, clipVars>>

AuthSendHostInfo ==
    /\ pcH = "sendHost"
    /\ pcH' = "sendMon"
    /\ LET out == SafeSend(<<HostInfoMsg>>)
       IN  ev' = Ev("AuthSendHostInfo", NoMsg, out, "none") /\ Emitted(out)
    /\ UNCHANGED <<handshakeFixed, clipVars>>

AuthSendMonitorList ==
    /\ pcH = "sendMon"
    /\ pcH' = "callback"
    /\ LET out == SafeSend(<<MonitorListMsg(currentMonitorIdx)>>)
       IN  ev' = Ev("AuthSendMonitorList", NoMsg, out, "none") /\ Emitted(out)
    /\ UNCHANGED <<handshakeFixed, clipVars>>

\* The authenticated callback of main: ClipboardSync::SendCurrentClipboard.
AuthCallback ==
    /\ pcH = "callback"
    /\ pcH' = "idle"
    /\ ignoreNextChange' = FALSE
    /\ \E b \in BufLevels :
         LET r == OnClipboardChanged(b) IN
         /\ lastSentHash' = r.hash
         /\ ev' = EvObs("AuthCallback", r.out, b)
         /\ authOkSent' = authOkSent
         /\ hs' = IF hs # <<>> THEN Take(hs \o <<"CALLBACK">> \o Kinds(r.out), HsCap) ELSE hs
    /\ UNCHANGED <<handshakeFixed, hostClip, wmPending, clipRun>>

\* ------------------------------------------------------------------ video sender

FidSame(f) == f

\* fid.fetch_add(1) on the 32-bit counter, kept as <<high half, low half>>.
FidNext(f) == IF f[2] + 1 = TWO16 THEN <<(f[1] + 1) % TWO16, 0>> ELSE <<f[1], f[2] + 1>>

\* a < b as unsigned 32-bit values
FidLess(a, b) == a[1] < b[1] \/ (a[1] = b[1] /\ a[2] < b[2])

IsConnectionStale ==
    /\ conn
    /\ \/ lastPingResponse > 0 /\ now - lastPingResponse > PING_TIMEOUT_MS
       \/ consecutiveOverflows >= MAX_OVERFLOWS

OverflowedPastBTH(b) == b > BTH

\* the pre-fragmentation backpressure test: bufAmt > BT
Overflowed(b) == b > BT

ChunkCountFloor(sz) == sz \div DCK

\* n = (sz + DCK - 1) / DCK
ChunkCount(sz) == (sz + DCK - 1) \div DCK

\* Chunk i of frame f: the PktHdr fields and the payload length, with two
\* observations beside them: the payload size of the whole frame, and whether
\* a keyframe request was outstanding when the frame was sent.
VideoChunk(f, n, i) ==
    [k |-> "VIDEO", fid |-> fid, idx |-> i, total |-> n, isKey |-> f.isKey,
     len |-> Min(DCK, f.size - i * DCK), size |-> f.size, owed |-> keyOwed]

SendOutcome(path, disc, co, drop, rekey, fidUsed, out) ==
    [path |-> path, fd |-> disc, co |-> co, drop |-> drop, rekey |-> rekey,
     fidUsed |-> fidUsed, out |-> out]

\* The chunk loop of Send from chunk i on (webrtc.hpp:418-435): the number of
\* chunks it puts on the channel before it ends or breaks.  reads[k] is
\* bufferedAmount() as read before chunk 16*k (the last reading stands for
\* the later ones), stop the index of the chunk whose SafeSend fails.
RECURSIVE ChunkLoop(_, _, _, _)
ChunkLoopOnce(i, n, stop, reads) ==
    IF i >= n THEN n
    ELSE IF i = 16 /\ reads[1] > BTH THEN i
    ELSE IF i = stop THEN i
    ELSE ChunkLoop(i + 1, n, stop, reads)

ChunkLoop(i, n, stop, reads) ==
    IF i >= n THEN n
    ELSE IF i > 0 /\ i % 16 = 0 /\ reads[Min(i \div 16, Len(reads))] > BTH THEN i
    ELSE IF i = stop THEN i
    ELSE ChunkLoop(i + 1, n, stop, reads)

\* WebRTCServer::Send(f) as a function of what it observes: b is
\* bufferedAmount() before fragmentation, reads the values read at every 16th
\* chunk, stop the index of the chunk whose SafeSend fails (-1: none does).
\* The outcome says whether ForceDisconnect is called, the new overflow
\* counter otherwise, the increment of the dropped-frame counter, whether
\* keyframe-needed is set, whether a frame id is consumed and the chunks sent.
SendReading(f, b, stop, reads) ==
    IF ~conn \/ ~authenticated
      THEN SendOutcome("gate", FALSE, consecutiveOverflows, 0, FALSE, FALSE, <<>>)
    ELSE IF ~ChannelOpen
      THEN SendOutcome("closed", TRUE, consecutiveOverflows, 0, FALSE, FALSE, <<>>)
    ELSE IF IsConnectionStale
      THEN SendOutcome("stale", TRUE, consecutiveOverflows, 0, FALSE, FALSE, <<>>)
    ELSE IF Overflowed(b)
      THEN LET overflows == consecutiveOverflows + 1
           IN  SendOutcome("overflow", overflows >= MAX_OVERFLOWS, overflows, 1, TRUE, FALSE, <<>>)
    ELSE LET sz == f.size
             n == ChunkCount(sz)
         IN  IF n > 65535 \/ sz = 0
               THEN SendOutcome("empty", FALSE, 0, 0, FALSE, FALSE, <<>>)
               ELSE LET cnt == ChunkLoop(0, n, stop, reads)
                        out == [i \in 1..cnt |-> VideoChunk(f, n, i - 1)]
                    IN  IF cnt < n
                          THEN SendOutcome("aborted", FALSE, 1, 1, TRUE, TRUE, out)
                          ELSE SendOutcome("frame", FALSE, 0, 0, FALSE, TRUE, out)

Send(f, b, stop, mb) == SendReading(f, b, stop, <<mb>>)

\* ------------------------------------------------------------------ encoder
\* AV1Encoder::Encode(tex, ts, force), for an encoder that honours the key
\* flag.  res is how the call ends: "early" (a return before the frame is
\* submitted), "late" (avcodec_send_frame fails) or "frame".
Encode(force, res, sz) ==
    LET needsKeyframe == force \/ (now - lastKeyframe >= KEYFRAME_INTERVAL)
        stamped == IF needsKeyframe THEN now ELSE lastKeyframe
    IN  IF res = "early" THEN [frame |-> NoFrame, lastKeyframe |-> lastKeyframe]
        ELSE IF res = "late" THEN [frame |-> NoFrame, lastKeyframe |-> stamped]
        ELSE [frame |-> [size |-> sz, isKey |-> needsKeyframe], lastKeyframe |-> stamped]

\* The packet loops of AV1Encoder::Encode (encoder.hpp:426-472).  A packet
\* is its key flag; ret is what the first avcodec_send_frame returns, first
\* the packets avcodec_receive_packet hands out in the EAGAIN branch, ret2
\* what the second avcodec_send_frame returns and second the packets of the
\* loop after it.  The gotKeyframe of the EAGAIN branch is a variable of
\* that block; the one stored in isKey is declared after it.
NoUnit == [data |-> <<>>, isKey |-> FALSE, null |-> TRUE]

AnyKey(pkts) == \E i \in 1..Len(pkts) : pkts[i].key

EncodeDrain(ret, first, ret2, second) ==
    LET eagain == (ret = "eagain")
        data0 == IF eagain THEN first ELSE <<>>
        final == IF eagain THEN ret2 ELSE ret
    IN  IF final = "error" THEN NoUnit
        ELSE LET gotKeyframe == AnyKey(second)
                 data == data0 \o second
             IN  IF data = <<>> THEN NoUnit
                 ELSE [data |-> data, isKey |-> gotKeyframe, null |-> FALSE]

\* A call of Encode on the encoder as it is, with the codec answering
\* from rets and handing out the packet runs of drains.
CallEncode(rets, drains) ==
    /\ er
    /\ \E ret \in rets, ret2 \in rets \ {"eagain"}, first \in drains, second \in drains :
         /\ ret # "eagain" => first = <<>> /\ ret2 = "ok"
         /\ ev' = [op |-> "Encode", msg |-> NoMsg, out |-> <<>>,
                   fx |-> [ret |-> ret, first |-> first, ret2 |-> ret2, second |-> second],
                   obs |-> EncodeDrain(ret, first, ret2, second), path |-> ret]
    /\ UNCHANGED <<transportVars, envVars, handlerVars, encodeVars, pcA, lockVars, runVars,
                   captureVars, clipVars, histVars>>

FrameSizes == {DCK, DCK + 1, (BigFrameChunks - 1) * DCK + 1}
StopPoints == {-1, 0, 1, BigFrameChunks - 1}
EncodeResults == {"early", "late", "frame"}

\* ------------------------------------------------------------------ capture
\* ScreenCapture::OnFrameArrived while capturing: a frame is pushed to the slot.
\* A frame pool that SwitchMonitor closed and could not replace delivers no
\* frames.
OnFrameArrived ==
    /\ capturing /\ framePool /\ ~slotReady
    /\ slotReady' = TRUE
    /\ forceSync' = FALSE
    /\ ev' = Ev("OnFrameArrived", NoMsg, <<>>, "none")
    /\ UNCHANGED <<transportVars, envVars, handlerVars, encodeVars, pcA, lockVars, runVars,
                   capturing, targetFps, currentMonitorIdx, er, lastKeyframe,
                   framePool, sessionStarted, textureIndex, slotVars, fd, released, clipVars, histVars>>

\* The rate rule of OnFrameArrived (capture.hpp:300-311) for a surface that
\* arrives at timestamp t: sync is what forceSync.exchange(false) returns,
\* nft is nextFrameTime before the call, iv the interval.
RECURSIVE Advance(_, _, _)
AdvanceOnce(nft, t, iv) ==
    IF nft <= t THEN nft + iv ELSE nft

Advance(nft, t, iv) ==
    IF nft <= t THEN Advance(nft + iv, t, iv) ELSE nft

Pace(sync, nft, t, iv) ==
    IF sync THEN [accepted |-> TRUE, next |-> Advance(t + iv, t, iv)]
    ELSE IF t < nft THEN [accepted |-> FALSE, next |-> nft]
    ELSE [accepted |-> TRUE, next |-> Advance(nft, t, iv)]

\* OnFrameArrived with its timestamps: the surface arrives gap microseconds
\* after the one before it; an accepted surface is pushed to the slot.
\* anchor is the nextFrameTime that the last consumed forceSync set, and
\* lastAccept the timestamp of the last accepted surface.
FrameArrivedAt(gaps) ==
    /\ capturing /\ framePool
    /\ \E gap \in gaps :
         LET timestamp == clockUs + gap
             interval == 1000000 \div targetFps
             r == Pace(forceSync, nextFrameTime, timestamp, interval)
         IN  /\ timestamp <= ClockT0 + MaxClockUs
             /\ clockUs' = timestamp
             /\ nextFrameTime' = r.next
             /\ anchor' = (IF forceSync THEN timestamp + interval ELSE anchor)
             /\ lastAccept' = (IF r.accepted THEN timestamp ELSE lastAccept)
             /\ slotReady' = (slotReady \/ r.accepted)
             /\ ev' = [op |-> "FrameArrivedAt", msg |-> NoMsg, out |-> <<>>,
                       fx |-> [sync |-> forceSync, nft |-> nextFrameTime, iv |-> interval,
                               last |-> lastAccept],
                       obs |-> timestamp,
                       path |-> IF r.accepted THEN "accept" ELSE "drop"]
    /\ forceSync' = FALSE
    /\ UNCHANGED <<transportVars, now, handlerVars, encodeVars, pcA, lockVars, runVars,
                   capturing, targetFps, currentMonitorIdx, er, lastKeyframe,
                   framePool, sessionStarted, textureIndex, slotVars, fd, released, clipVars, histVars>>

\* ------------------------------------------------------------------ encode thread
Streaming == conn /\ authenticated /\ fpsr /\ er

\* The condition of the three worker loops: while (run).
WhileTrue == TRUE

WhileRun == run

\* top of the loop: the flag check before Pop
EncCheck ==
    /\ pcE = "top" /\ WhileRun
    /\ IF Streaming THEN pcE' = "pop" /\ was' = was
                    ELSE was /\ was' = FALSE /\ pcE' = pcE
    /\ ev' = Ev("EncCheck", NoMsg, <<>>, "none")
    /\ UNCHANGED <<transportVars, envVars, handlerVars, pend, pcA, lockVars, runVars, captureVars, clipVars, histVars>>

\* slot.Pop(fd): a frame, or a timeout
EncPop ==
    /\ pcE = "pop"
    /\ IF slotReady THEN slotReady' = FALSE /\ pcE' = "gate"
                    ELSE slotReady' = slotReady /\ pcE' = "top"
    /\ ev' = Ev("EncPop", NoMsg, <<>>, "none")
    /\ UNCHANGED <<transportVars, envVars, handlerVars, was, pend, pcA, lockVars, runVars,
                   capturing, targetFps, currentMonitorIdx, er, lastKeyframe, frameVars,
                   clipVars, histVars>>

\* the re-check after Pop, Flush on a fresh stream, the fence wait
EncGate ==
    /\ pcE = "gate"
    /\ LET c == Streaming IN
       /\ lastKeyframe' = (IF c /\ ~was THEN now - KEYFRAME_INTERVAL ELSE lastKeyframe)
       /\ was' = c
       /\ \E fenceOk \in BOOLEAN : pcE' = (IF c /\ fenceOk THEN "encode" ELSE "top")
    /\ ev' = Ev("EncGate", NoMsg, <<>>, "none")
    /\ UNCHANGED <<transportVars, envVars, handlerVars, pend, pcA, lockVars, runVars,
                   capturing, slotReady, targetFps, currentMonitorIdx, er, frameVars,
                   clipVars, histVars>>

\* Send left its chunk loop at a re-check of bufferedAmount() that read more
\* than BTH (webrtc.hpp:418-423), as against a SafeSend that failed.
MidFrameOverflow(r, reads) ==
    /\ r.path = "aborted"
    /\ Len(r.out) > 0 /\ Len(r.out) % 16 = 0
    /\ reads[Min(Len(r.out) \div 16, Len(reads))] > BTH

\* { lock em; if (enc) if (o = enc->Encode(tex, ts, rtc->NeedsKey())) rtc->Send(*o); }
\* slot.MarkReleased(fd.poolIdx); fd.Release();
EncodeAndSendReading(results, sizes, bufs, stops, readings, recorded) ==
    /\ pcE = "encode"
    /\ pcE' = "top"
    /\ IF ~er
         THEN /\ ev' = [Ev("EncodeSend", NoMsg, <<>>, "none") EXCEPT !.path = "noenc"]
              /\ UNCHANGED <<fdVars, nkey, dpc, fid, lastKeyframe, histVars>>
         ELSE \E res \in results, sz \in sizes, b \in bufs :
              \E stop \in {x \in stops : x < ChunkCount(sz)},
                 reads \in (IF ChunkCount(sz) > 16 THEN readings ELSE {<<0>>}) :
              LET e == Encode(nkey, res, sz)
                  r == IF e.frame = NoFrame
                         THEN SendOutcome("nullptr", FALSE, consecutiveOverflows, 0, FALSE, FALSE, <<>>)
                         ELSE SendReading(e.frame, b, stop, reads)
              IN  /\ r.fidUsed => Len(sentFids) < MaxFrames
                  /\ r.drop > 0 => dpc < MaxDpc
                  /\ lastKeyframe' = e.lastKeyframe
                  /\ nkey' = r.rekey
                  /\ IF r.fd THEN ForceDisconnect
                             ELSE /\ consecutiveOverflows' = r.co
                                  /\ UNCHANGED <<conn, fpsr, authenticated, dcState, pcState,
                                                 capturing, discCalls>>
                  /\ dpc' = dpc + r.drop
                  /\ fid' = (IF r.fidUsed THEN FidNext(fid) ELSE fid)
                  /\ sentFids' = (IF r.fidUsed
                                    THEN Append(sentFids, [fid |-> fid, sent |-> r.out # <<>>])
                                    ELSE sentFids)
                  /\ keyOwed' = (IF r.rekey THEN TRUE
                                 ELSE IF r.out # <<>> /\ e.frame.isKey THEN FALSE
                                 ELSE keyOwed)
                  /\ ev' = [op |-> "EncodeSend", msg |-> NoMsg, out |-> r.out,
                            fx |-> IF recorded THEN [stop |-> stop, reads |-> reads,
                                                     n |-> ChunkCount(sz)]
                                   ELSE "none",
                            obs |-> b, path |-> r.path]
                  /\ Emitted(r.out)
                  /\ ovfRun' = (IF r.path = "overflow" THEN Min(ovfRun + 1, MAX_OVERFLOWS)
                                 ELSE IF r.path \in {"empty", "aborted", "frame"} THEN 0
                                 ELSE ovfRun)
                  /\ ovfObs' = (IF ~recorded THEN ovfObs
                                 ELSE IF r.path = "frame" THEN 0
                                 ELSE IF r.path = "overflow" \/ MidFrameOverflow(r, reads)
                                   THEN Min(ovfObs + 1, MAX_OVERFLOWS)
                                 ELSE ovfObs)
                  /\ UNCHANGED <<fpsAccepted, authFailed, failTimerRan, slotHist>>
    /\ inFlightMask' = MarkReleased(fd.poolIdx)
    /\ released' = ReleasedAfter(fd.poolIdx)
    /\ fd' = NoFrameData
    /\ UNCHANGED <<sess, cfps, cfm, lastPingResponse, envVars, handlerVars, was, pend, pcA, lockVars, runVars,
                   slotReady, targetFps, currentMonitorIdx, er, clipVars,
                   forceSync, framePool, sessionStarted, textureIndex, slots, writeIdx, readIdx, dropCount>>

\* The same with one reading mb for every 16th chunk.
EncodeAndSend(results, sizes, bufs, stops, mids) ==
    EncodeAndSendReading(results, sizes, bufs, stops, {<<mb>> : mb \in mids}, FALSE)

EncodeSend == EncodeAndSend(EncodeResults, FrameSizes, SendBufLevels, StopPoints, MidBufLevels)

\* The same statement of the encode thread in two steps, for the runs in
\* which another thread acts while Send is between its checks and its chunk
\* loop.  SendEnter is Encode returning a frame and Send up to the store of 0
\* to the overflow counter (webrtc.hpp:399-412): it is taken when Send gets
\* that far.  Only Send touches fid, so fid.fetch_add is folded into the
\* second step.
SendEnter(sizes, bufs) ==
    /\ pcE = "encode" /\ er
    /\ conn /\ authenticated /\ ChannelOpen /\ ~IsConnectionStale
    /\ Len(sentFids) < MaxFrames /\ dpc < MaxDpc
    /\ \E sz \in sizes, b \in bufs :
         LET e == Encode(nkey, "frame", sz) IN
         /\ ~Overflowed(b) /\ sz > 0 /\ ChunkCount(sz) <= 65535
         /\ lastKeyframe' = e.lastKeyframe
         /\ pend' = e.frame
         /\ ev' = [op |-> "SendEnter", msg |-> NoMsg, out |-> <<>>, fx |-> "none",
                   obs |-> b, path |-> "enter"]
    /\ nkey' = FALSE
    /\ consecutiveOverflows' = 0
    /\ pcE' = "chunks"
    /\ UNCHANGED <<sess, pcState, dcState, conn, authenticated, fpsr, cfps, cfm,
                   lastPingResponse, fid, dpc, envVars, handlerVars, was, pcA, lockVars, runVars,
                   capturing, slotReady, targetFps, currentMonitorIdx, er, frameVars,
                   clipVars, histVars>>

\* The chunk loop of Send (webrtc.hpp:415-435) and the release of the frame
\* (main.cpp:383).  SafeSend fails on a channel that is no longer open; mb
\* is bufferedAmount() as read at the 16th chunk.
SendChunks ==
    /\ pcE = "chunks"
    /\ pcE' = "top"
    /\ \E mb \in (IF ChunkCount(pend.size) > 16 THEN MidBufLevels ELSE {0}) :
         LET n == ChunkCount(pend.size)
             cnt == IF ~ChannelOpen THEN 0 ELSE IF n > 16 /\ mb > BTH THEN 16 ELSE n
             out == [i \in 1..cnt |-> VideoChunk(pend, n, i - 1)]
         IN  /\ consecutiveOverflows' = (IF cnt < n THEN consecutiveOverflows + 1
                                         ELSE consecutiveOverflows)
             /\ dpc' = (IF cnt < n THEN dpc + 1 ELSE dpc)
             /\ nkey' = (IF cnt < n THEN TRUE ELSE nkey)
             /\ keyOwed' = (IF cnt < n THEN TRUE
                            ELSE IF pend.isKey THEN FALSE ELSE keyOwed)
             /\ sentFids' = Append(sentFids, [fid |-> fid, sent |-> out # <<>>])
             /\ ev' = [op |-> "SendChunks", msg |-> NoMsg, out |-> out, fx |-> "none",
                       obs |-> mb, path |-> IF cnt < n THEN "aborted" ELSE "frame"]
             /\ Emitted(out)
    /\ fid' = FidNext(fid)
    /\ pend' = NoFrame
    /\ ovfRun' = 0 /\ ovfObs' = ovfObs
    /\ inFlightMask' = MarkReleased(fd.poolIdx)
    /\ released' = ReleasedAfter(fd.poolIdx)
    /\ fd' = NoFrameData
    /\ UNCHANGED <<sess, pcState, dcState, conn, authenticated, fpsr, cfps, cfm,
                   lastPingResponse, envVars, handlerVars, was, pcA, lockVars, runVars,
                   capturing, slotReady, targetFps, currentMonitorIdx, er, lastKeyframe,
                   forceSync, framePool, sessionStarted, textureIndex, slots, writeIdx, readIdx, dropCount,
                   clipVars, fpsAccepted, authFailed, failTimerRan, discCalls, slotHist>>

\* ------------------------------------------------------------------ audio thread
AudioMsg == [k |-> "AUDI"]
MAX_AUDIO == 4000

\* WebRTCServer::SendAudio for a packet of len bytes, bufferedAmount() = b
SendAudioOf(len, b) ==
    IF ~conn \/ ~authenticated THEN <<>>
    ELSE IF ~ChannelOpen \/ len = 0 \/ len > MAX_AUDIO THEN <<>>
    ELSE IF consecutiveOverflows >= MAX_OVERFLOWS \div 2 THEN <<>>
    ELSE IF b > BT \div 2 THEN <<>>
    ELSE SafeSend(<<AudioMsg>>)

\* WebRTCServer::SendAudio for a non-empty packet of at most 4000 bytes
SendAudio(b) == SendAudioOf(1, b)

\* the flag check of the audio loop
AudCheck ==
    /\ pcA = "top" /\ WhileRun
    /\ conn /\ authenticated /\ fpsr
    /\ pcA' = "send"
    /\ ev' = Ev("AudCheck", NoMsg, <<>>, "none")
    /\ UNCHANGED <<transportVars, envVars, handlerVars, encodeVars, lockVars, runVars,
                   captureVars, clipVars, histVars>>

\* PopPacket, SendAudio
AudSendOf(lens, bufs, recorded) ==
    /\ pcA = "send"
    /\ pcA' = "top"
    /\ \E len \in lens, b \in bufs :
         LET out == SendAudioOf(len, b)
         IN  /\ ev' = [EvObs("AudSend", out, b) EXCEPT !.fx = IF recorded THEN len ELSE "none"]
             /\ Emitted(out)
    /\ UNCHANGED <<transportVars, envVars, handlerVars, encodeVars, lockVars, runVars,
                   captureVars, clipVars,
                   fpsAccepted, authFailed, failTimerRan, sentFids, keyOwed, discCalls,
                   ovfRun, ovfObs, slotHist>>

AudSend == AudSendOf({1}, BufLevels, FALSE)

\* ------------------------------------------------------------------ texture pool
\* The capture callback, the slot and the encode thread with the frames
\* themselves.  A frame is [tex, poolIdx, inPool]: tex numbers the captured
\* images in the order of their Push, poolIdx is the pool texture that holds
\* the image, inPool says that this texture is one of the current
\* texturePool (InitializeMonitor replaces the pool).  slotReady is the
\* slot's event.

\* ScreenCapture::OnFrameArrived for a frame that passes the rate limiter
\* (forceSync, or its timestamp has reached nextFrameTime); the run has at
\* most n such frames.
FrameArrivedUpTo(n) ==
    /\ capturing /\ framePool /\ pushed < n
    /\ forceSync' = FALSE
    /\ \E surfaceOk \in BOOLEAN :
         IF surfaceOk
           THEN LET t == FindAvailableTexture IN
                /\ textureIndex' = t.next
                /\ Push([tex |-> pushed + 1, poolIdx |-> t.idx, inPool |-> TRUE])
                /\ slotReady' = TRUE
                /\ pushed' = pushed + 1
                /\ ev' = [op |-> "FrameArrived", msg |-> NoMsg, out |-> <<>>, fx |-> "none",
                          obs |-> t.idx, path |-> IF t.conflict THEN "conflict" ELSE "copy"]
           ELSE /\ forceSync
                /\ ev' = [op |-> "FrameArrived", msg |-> NoMsg, out |-> <<>>, fx |-> "none",
                          obs |-> -1, path |-> "nosurface"]
                /\ UNCHANGED <<textureIndex, slotVars, slotReady, pushed>>
    /\ UNCHANGED <<transportVars, envVars, handlerVars, encodeVars, pcA, lockVars, runVars,
                   capturing, framePool, sessionStarted, targetFps, currentMonitorIdx, er,
                   lastKeyframe, fd, released,
                   clipVars, authOkSent, fpsAccepted, authFailed, failTimerRan, hs, sentFids,
                   keyOwed, discCalls, ovfRun, ovfObs, popped, dropTotal, lastPop>>

FrameArrived == FrameArrivedUpTo(MaxPush)

\* slot.Pop(fd) in the encode loop: the frame of the read cell, or a timeout.
EncPopFrame ==
    /\ pcE = "pop"
    /\ IF PopReturnsFrame
         THEN /\ fd' = PopFrame
              /\ released' = released
              /\ slots' = PopSlots
              /\ readIdx' = -1
              /\ pcE' = "gate"
              /\ popped' = popped + 1
              /\ lastPop' = PopFrame.tex
              /\ ev' = [op |-> "Pop", msg |-> NoMsg, out |-> <<>>, fx |-> "none",
                        obs |-> PopFrame.tex, path |-> "frame"]
         ELSE /\ pcE' = "top"
              /\ ev' = [op |-> "Pop", msg |-> NoMsg, out |-> <<>>, fx |-> "none",
                        obs |-> 0, path |-> "timeout"]
              /\ UNCHANGED <<fd, released, slots, readIdx, popped, lastPop>>
    /\ slotReady' = FALSE
    /\ UNCHANGED <<transportVars, envVars, handlerVars, was, pend, pcA, lockVars, runVars,
                   capturing, targetFps, currentMonitorIdx, er, lastKeyframe,
                   forceSync, framePool, sessionStarted, textureIndex, writeIdx, dropCount, inFlightMask,
                   clipVars, authOkSent, fpsAccepted, authFailed, failTimerRan, hs, sentFids,
                   keyOwed, discCalls, ovfRun, ovfObs, pushed, dropTotal>>

\* The re-check after Pop, Flush on a fresh stream and the fence wait; a
\* frame that is not encoded is released here (main.cpp:380-381).
EncGateFrame ==
    /\ pcE = "gate"
    /\ LET c == Streaming IN
       /\ lastKeyframe' = (IF c /\ ~was THEN now - KEYFRAME_INTERVAL ELSE lastKeyframe)
       /\ was' = c
       /\ \E fenceOk \in BOOLEAN :
            IF c /\ fd.tex # 0 /\ fenceOk
              THEN /\ pcE' = "encode" /\ UNCHANGED <<fd, released, inFlightMask>>
                   /\ ev' = [Ev("EncGate", NoMsg, <<>>, "none") EXCEPT !.path = "encode"]
              ELSE /\ pcE' = "top"
                   /\ inFlightMask' = MarkReleased(fd.poolIdx)
                   /\ released' = ReleasedAfter(fd.poolIdx)
                   /\ fd' = NoFrameData
                   /\ ev' = [Ev("EncGate", NoMsg, <<>>, "none") EXCEPT
                               !.path = IF c /\ fd.tex # 0 THEN "fence" ELSE "skip"]
    /\ UNCHANGED <<transportVars, envVars, handlerVars, pend, pcA, lockVars, runVars,
                   capturing, slotReady, targetFps, currentMonitorIdx, er,
                   forceSync, framePool, sessionStarted, textureIndex, slots, writeIdx, readIdx, dropCount,
                   clipVars, histVars>>

\* FrameSlot::GetDropped
GetDropped ==
    /\ dropCount > 0
    /\ dropCount' = 0
    /\ dropTotal' = dropTotal + dropCount
    /\ ev' = EvObs("GetDropped", <<>>, dropCount)
    /\ UNCHANGED <<transportVars, envVars, handlerVars, encodeVars, pcA, lockVars, runVars,
                   capturing, slotReady, targetFps, currentMonitorIdx, er, lastKeyframe,
                   forceSync, framePool, sessionStarted, textureIndex, slots, writeIdx, readIdx, inFlightMask, fd, released,
                   clipVars, authOkSent, fpsAccepted, authFailed, failTimerRan, hs, sentFids,
                   keyOwed, discCalls, ovfRun, ovfObs, pushed, popped, lastPop>>

\* ------------------------------------------------------------------ lock steps
\* Thread t starts a piece of work, or performs the lock operation it is at:
\* an acquire waits until the mutex is free.
LockStep(t) ==
    /\ IF pcL[t] = Idle
         THEN \E j \in LockJobs(t) :
                /\ pcL' = [pcL EXCEPT ![t] = [job |-> j, at |-> 1]]
                /\ mtx' = mtx
                /\ ev' = [op |-> "Lock", msg |-> NoMsg, out |-> <<>>, fx |-> j,
                          obs |-> 2, path |-> t]
         ELSE LET o == LockOp(t)
                  last == pcL[t].at = Len(LocksOf(pcL[t].job))
              IN  /\ o[1] = "acq" => mtx[o[2]] = "none"
                  /\ mtx' = [mtx EXCEPT ![o[2]] = IF o[1] = "acq" THEN t ELSE "none"]
                  /\ pcL' = [pcL EXCEPT ![t] = IF last THEN Idle
                                                ELSE [pcL[t] EXCEPT !.at = @ + 1]]
                  /\ ev' = [op |-> "Lock", msg |-> NoMsg, out |-> <<>>, fx |-> o[2],
                            obs |-> IF o[1] = "acq" THEN 1 ELSE 0, path |-> t]
    /\ sw' = sw
    /\ UNCHANGED <<transportVars, envVars, handlerVars, encodeVars, pcA, runVars,
                   captureVars, clipVars, histVars>>

LockSteps == \E t \in Threads : LockStep(t)

\* ------------------------------------------------------------------ stats thread
\* GetStats: dpc.exchange(0)
GetStats ==
    /\ pcT = "loop" /\ WhileRun
    /\ dpc > 0
    /\ dpc' = 0
    /\ ev' = Ev("GetStats", NoMsg, <<>>, "none")
    /\ UNCHANGED <<sess, pcState, dcState, conn, authenticated, fpsr, nkey, cfps, cfm,
                   consecutiveOverflows, lastPingResponse, fid,
                   envVars, handlerVars, encodeVars, pcA, lockVars, runVars, captureVars, clipVars, histVars>>

\* ------------------------------------------------------------------ shutdown
\* main after st.join(): run = false; SetEvent(slot.GetEvent());
Shutdown ==
    /\ run
    /\ run' = FALSE
    /\ slotReady' = TRUE
    /\ ev' = Ev("Shutdown", NoMsg, <<>>, "none")
    /\ UNCHANGED <<transportVars, envVars, handlerVars, encodeVars, pcA, lockVars, pcT,
                   capturing, targetFps, currentMonitorIdx, er, lastKeyframe, frameVars,
                   clipVars, histVars>>

\* while (run) of the encode thread, read false
EncExit ==
    /\ pcE = "top" /\ ~WhileRun
    /\ pcE' = "done"
    /\ ev' = Ev("EncExit", NoMsg, <<>>, "none")
    /\ UNCHANGED <<transportVars, envVars, handlerVars, was, pend, pcA, lockVars, runVars,
                   captureVars, clipVars, histVars>>

\* while (run) of the audio-dispatch thread, read false
AudExit ==
    /\ pcA = "top" /\ ~WhileRun
    /\ pcA' = "done"
    /\ ev' = Ev("AudExit", NoMsg, <<>>, "none")
    /\ UNCHANGED <<transportVars, envVars, handlerVars, encodeVars, lockVars, runVars,
                   captureVars, clipVars, histVars>>

\* while (run) of the stats thread, read false after its sleep
StatsExit ==
    /\ pcT = "loop" /\ ~WhileRun
    /\ pcT' = "done"
    /\ ev' = Ev("StatsExit", NoMsg, <<>>, "none")
    /\ UNCHANGED <<transportVars, envVars, handlerVars, encodeVars, pcA, lockVars, run,
                   captureVars, clipVars, histVars>>

\* ------------------------------------------------------------------ specifications
\* The complete composition comes first; the properties further down are
\* checked under the narrower compositions after it, each scheduling the
\* threads and drawing the inputs its properties are about.
Next ==
    \/ Setup \/ PcConnected \/ PcDown \/ DcOpen \/ DcClosed
    \/ Deliver \/ AuthSendResponse \/ AuthSendHostInfo \/ AuthSendMonitorList \/ AuthCallback
    \/ FdTimerFire \/ Tick
    \/ HostCopy \/ WndProc
    \/ OnFrameArrived \/ EncCheck \/ EncPop \/ EncGate \/ EncodeSend
    \/ AudCheck \/ AudSend \/ GetStats

\* Every thread of the program, every input.
Spec == Init /\ [][Next]_vars

\* The message handler with the transport callbacks and the clipboard
\* monitor thread; the encode and audio threads are not scheduled, and the
\* client does not switch monitors (SpecGate and SpecSwitch do that).
HandlerMsgs == AuthMsgs \cup FpsMsgs \cup ClipMsgs \cup OtherMsgs

DeliverHandler == OnMessage(HandlerMsgs)

NextHandler ==
    \/ Setup \/ PcConnected \/ PcDown \/ DcOpen \/ DcClosed
    \/ DeliverHandler \/ AuthSendResponse \/ AuthSendHostInfo \/ AuthSendMonitorList \/ AuthCallback
    \/ FdTimerFire
    \/ HostCopy \/ WndProc

SpecHandler == Init /\ [][NextHandler]_vars

\* The message handler with the callbacks of one peer connection.
NextGate ==
    \/ PcConnected \/ PcDown \/ DcOpen \/ DcClosed
    \/ Deliver \/ AuthSendResponse \/ AuthSendHostInfo \/ AuthSendMonitorList \/ AuthCallback
    \/ FdTimerFire

SpecGate == Init /\ [][NextGate]_vars

\* A session that authenticates (or fails to), is told the frame rate and
\* streams: handler, transport callbacks, capture and encode thread.  The
\* encoder may fail before it submits a frame; the channel never backs up.
StreamMsgs ==
    { AuthRequestOf(authUsername, authPin, <<>>),
      AuthRequestOf(authUsername, <<49, 50, 51, 52, 53, 55>>, <<>>),
      Msg("FPSC", 7, <<ReqFps, 0>>),
      Msg("KEYR", 4, <<>>) }

DeliverStream == OnMessage(StreamMsgs)

EncodeSendClear == EncodeAndSend({"early", "frame"}, {DCK}, {BT}, {-1}, {BTH})

NextStream ==
    \/ Setup \/ PcConnected \/ DcOpen \/ DcClosed
    \/ DeliverStream \/ AuthSendResponse \/ AuthSendHostInfo \/ AuthSendMonitorList \/ AuthCallback
    \/ FdTimerFire
    \/ OnFrameArrived \/ EncCheck \/ EncPop \/ EncGate \/ EncodeSendClear

SpecStream == Init /\ [][NextStream]_vars

\* The video sender under backpressure: one client that authenticates and
\* sets the frame rate, frames of every size class, every buffer level and
\* every failing chunk.
SendMsgs ==
    { AuthRequestOf(authUsername, authPin, <<>>), Msg("FPSC", 7, <<ReqFps, 0>>) }

DeliverSend == OnMessage(SendMsgs)

EncodeSendFrames == EncodeAndSend({"frame"}, FrameSizes, SendBufLevels, StopPoints, MidBufLevels)

NextSend ==
    \/ PcConnected \/ DcOpen
    \/ DeliverSend \/ AuthSendResponse \/ AuthSendHostInfo \/ AuthSendMonitorList \/ AuthCallback
    \/ OnFrameArrived \/ EncCheck \/ EncPop \/ EncGate \/ EncodeSendFrames
    \/ GetStats

SpecSend == Init /\ [][NextSend]_vars

\* The frame counter over the life of the process: fid is never reset between
\* sessions, so a sender starts either fresh or with the counter at the last
\* 32-bit value; frames of one and of two chunks, with the first chunk failing
\* or not, at either side of the buffer threshold.
LongRunFids == { <<0, 0>>, <<TWO16 - 1, TWO16 - 1>> }

InitLongRun == \E f \in LongRunFids : InitWith(f)

EncodeSendSmall == EncodeAndSend({"frame"}, {DCK, DCK + 1}, SendBufLevels, {-1, 0}, {0})

NextLongRun ==
    \/ PcConnected \/ DcOpen
    \/ DeliverSend \/ AuthSendResponse \/ AuthSendHostInfo \/ AuthSendMonitorList \/ AuthCallback
    \/ OnFrameArrived \/ EncCheck \/ EncPop \/ EncGate \/ EncodeSendSmall
    \/ GetStats

SpecLongRun == InitLongRun /\ [][NextLongRun]_vars

\* The video sender against a channel that stays backed up, with a client
\* that keeps answering pings: one-chunk frames, bufferedAmount() on either
\* side of BT.
BackpressureMsgs == SendMsgs \cup { Msg("PNGP", 16, <<>>) }

DeliverBackpressure == OnMessage(BackpressureMsgs)

EncodeSendStalled == EncodeAndSend({"frame"}, {DCK}, SendBufLevels, {-1}, {0})

NextBackpressure ==
    \/ PcConnected \/ DcOpen
    \/ DeliverBackpressure \/ AuthSendResponse \/ AuthSendHostInfo \/ AuthSendMonitorList
    \/ AuthCallback
    \/ OnFrameArrived \/ EncCheck \/ EncPop \/ EncGate \/ EncodeSendStalled
    \/ GetStats

SpecBackpressure == Init /\ [][NextBackpressure]_vars

\* The same channel with frames of one chunk and of seventeen, every
\* SafeSend succeeding, and the overflow observations of Send counted in
\* ovfObs: one more for each bufferedAmount() read above its
\* limit, before the chunk loop or in it, none left after a frame whose
\* chunks all went out.
CountedSizes == {DCK, 16 * DCK + 1}
CountedStops == {-1}
CountedReads == {<<mb>> : mb \in MidBufLevels}

EncodeSendCounted ==
    EncodeAndSendReading({"frame"}, CountedSizes, SendBufLevels, CountedStops, CountedReads, TRUE)

NextCounted ==
    \/ PcConnected \/ DcOpen
    \/ DeliverBackpressure \/ AuthSendResponse \/ AuthSendHostInfo \/ AuthSendMonitorList
    \/ AuthCallback
    \/ OnFrameArrived \/ EncCheck \/ EncPop \/ EncGate \/ EncodeSendCounted

SpecCounted == Init /\ [][NextCounted]_vars

\* The audio thread beside the video sender on a backed-up channel: packets
\* that are empty, of the largest size and one byte larger, bufferedAmount()
\* around BT / 2, and a Send that reads BT + 1 beside it.
AudioLens == {0, MAX_AUDIO, MAX_AUDIO + 1}
AudioBufLevels == {BT \div 2 - 1, BT \div 2, BT \div 2 + 1}

AudSendSized == AudSendOf(AudioLens, AudioBufLevels, TRUE)

NextAudio ==
    \/ PcConnected \/ DcOpen
    \/ DeliverSend \/ AuthSendResponse \/ AuthSendHostInfo \/ AuthSendMonitorList
    \/ AuthCallback
    \/ OnFrameArrived \/ EncCheck \/ EncPop \/ EncGate \/ EncodeSendStalled
    \/ AudCheck \/ AudSendSized

SpecAudio == Init /\ [][NextAudio]_vars

\* AV1Encoder::Encode called with every answer of the codec and every run
\* of at most MaxPackets packets, key or not, in either loop.
MaxPackets == 2
Packet(key) == [key |-> key]
PacketRuns ==
    UNION { [1..n -> {Packet(TRUE), Packet(FALSE)}] : n \in 0..MaxPackets }
SendFrameRets == {"ok", "eagain", "eof", "error"}

EncodeAny == CallEncode(SendFrameRets, PacketRuns)

NextEncode ==
    \/ PcConnected \/ DcOpen
    \/ DeliverSend \/ AuthSendResponse \/ AuthSendHostInfo \/ AuthSendMonitorList
    \/ AuthCallback
    \/ EncodeAny

SpecEncode == Init /\ [][NextEncode]_vars

\* A session left to itself: the client connects, may authenticate and may
\* set the frame rate, and then sends nothing more, while the clock runs.
\* Every thread of the host keeps running: the handler finishes the
\* handshake it started, frames keep arriving, the encode thread keeps
\* looping and the fence wait succeeds again and again.
DeliverQuiet == OnMessage(SendMsgs)

NextQuiet ==
    \/ PcConnected \/ DcOpen
    \/ DeliverQuiet \/ AuthSendResponse \/ AuthSendHostInfo \/ AuthSendMonitorList
    \/ AuthCallback
    \/ Tick
    \/ OnFrameArrived \/ EncCheck \/ EncPop \/ EncGate \/ EncodeSendClear

SpecQuiet ==
    /\ Init /\ [][NextQuiet]_vars
    /\ WF_vars(AuthSendResponse) /\ WF_vars(AuthSendHostInfo)
    /\ WF_vars(AuthSendMonitorList) /\ WF_vars(AuthCallback)
    /\ WF_vars(Tick)
    /\ WF_vars(OnFrameArrived) /\ WF_vars(EncCheck) /\ WF_vars(EncPop)
    /\ SF_vars(EncGate /\ pcE' = "encode") /\ WF_vars(EncGate)
    /\ SF_vars(EncodeSendClear /\ ev'.path # "nullptr") /\ WF_vars(EncodeSendClear)

\* Sessions that open, stream and close in every way the transport closes
\* them, with the encode thread's Send taken in two steps.
CloseMsgs ==
    { AuthRequestOf(authUsername, authPin, <<>>),
      AuthRequestOf(authUsername, <<49, 50, 51, 52, 53, 55>>, <<>>),
      Msg("FPSC", 7, <<ReqFps, 0>>) }

DeliverClose == OnMessage(CloseMsgs)

SendEnterClear == SendEnter({DCK}, {BT})

NextClose ==
    \/ Setup \/ PcConnected \/ PcDown \/ DcOpen \/ DcClosed
    \/ DeliverClose \/ AuthSendResponse \/ AuthSendHostInfo \/ AuthSendMonitorList
    \/ AuthCallback
    \/ FdTimerFire
    \/ OnFrameArrived \/ EncCheck \/ EncPop \/ EncGate \/ SendEnterClear \/ SendChunks

SpecClose == Init /\ [][NextClose]_vars

\* One session that streams while the client changes the frame rate and the
\* monitor: capture callback, slot, texture pool and encode thread with the
\* frames themselves.
PoolMsgs ==
    { AuthRequestOf(authUsername, authPin, <<>>),
      Msg("FPSC", 7, <<ReqFps, 0>>),
      Msg("MONS", 5, <<1>>) }

DeliverPool == OnMessage(PoolMsgs)

EncodeSendPool == EncodeAndSend({"early"}, {DCK}, {BT}, {-1}, {BTH})

NextPool ==
    \/ PcConnected \/ DcOpen
    \/ DeliverPool \/ AuthSendResponse \/ AuthSendHostInfo \/ AuthSendMonitorList
    \/ AuthCallback
    \/ FrameArrived \/ EncCheck \/ EncPopFrame \/ EncGateFrame \/ EncodeSendPool

SpecPool == Init /\ [][NextPool]_vars

\* One producer and one consumer on the slot: a session on one monitor, so
\* that the only Reset is StartCapture's, on the slot as constructed; the
\* drop counter is read at any time.
NextSlot ==
    \/ PcConnected \/ DcOpen
    \/ DeliverSend \/ AuthSendResponse \/ AuthSendHostInfo \/ AuthSendMonitorList
    \/ AuthCallback
    \/ FrameArrived \/ EncCheck \/ EncPopFrame \/ EncGateFrame \/ EncodeSendPool
    \/ GetDropped

SpecSlot == Init /\ [][NextSlot]_vars

\* A client that reconnects: the disconnect callback pauses capture and the
\* FPS_SET of the next session starts it again, on the same texture pool,
\* while the encode thread goes on at its own pace.
NextRestart ==
    \/ Setup \/ PcConnected \/ PcDown \/ DcOpen
    \/ DeliverSend \/ AuthSendResponse \/ AuthSendHostInfo \/ AuthSendMonitorList
    \/ AuthCallback
    \/ FrameArrived \/ EncCheck \/ EncPopFrame \/ EncGateFrame \/ EncodeSendPool

SpecRestart == Init /\ [][NextRestart]_vars

\* ScreenCapture::SetFPS called with rates on both sides of each end of
\* its range, on a capture object that a session starts and whose callback
\* consumes forceSync.
FpsInputs == {0, 1, ReqFps, 240, 241}

SetFPSAny == CallSetFPS(FpsInputs)

NextFps ==
    \/ PcConnected \/ DcOpen
    \/ DeliverSend \/ AuthSendResponse \/ AuthSendHostInfo \/ AuthSendMonitorList
    \/ AuthCallback
    \/ OnFrameArrived \/ SetFPSAny

SpecFps == Init /\ [][NextFps]_vars

\* The capture callback with its clock: surfaces arrive half an interval,
\* one microsecond short of an interval, a whole interval and more than two
\* intervals of the host rate apart, while the client sets the frame rate
\* and SetFPS is called with rates across its range.
PaceGaps == {8333, 16665, 16666, 40000}

FramePaced == FrameArrivedAt(PaceGaps)

NextPace ==
    \/ PcConnected \/ DcOpen
    \/ DeliverSend \/ AuthSendResponse \/ AuthSendHostInfo \/ AuthSendMonitorList
    \/ AuthCallback
    \/ FramePaced \/ SetFPSAny

SpecPace == Init /\ [][NextPace]_vars

\* ScreenCapture::SwitchMonitor called with indices inside and on both sides
\* of the monitor list, on a capture object that a session starts.
SwitchInputs == -1 .. (NumMonitors + 1)

SwitchMonitorAny == CallSwitchMonitor(SwitchInputs)

NextSwitch ==
    \/ PcConnected \/ DcOpen
    \/ DeliverSend \/ AuthSendResponse \/ AuthSendHostInfo \/ AuthSendMonitorList
    \/ AuthCallback
    \/ OnFrameArrived \/ SwitchMonitorAny

SpecSwitch == Init /\ [][NextSwitch]_vars

\* A monitor switch taken stretch by stretch while the peer connection may
\* go down beside it: the client authenticates, sets the frame rate and asks
\* for another monitor; onStateChange runs the disconnect callback
\* (PauseCapture) whenever it comes.
SwitchEnterAny == SwitchEnter(SwitchInputs)

DeliverBetween == sw = NoSwitch /\ OnMessage(SendMsgs)

NextSwitching ==
    \/ PcConnected \/ PcDown \/ DcOpen
    \/ DeliverBetween \/ AuthSendResponse \/ AuthSendHostInfo \/ AuthSendMonitorList
    \/ AuthCallback
    \/ OnFrameArrived
    \/ SwitchEnterAny \/ SwitchInit \/ SwitchRestart

SpecSwitching == Init /\ [][NextSwitching]_vars

\* The threads of the host as the lock operations they perform.
NextLocks == LockSteps

SpecLocks == Init /\ [][NextLocks]_vars

\* The host shut down at any moment of a session: the threads of main run
\* until each reads run = false.  The threads are scheduled fairly; the
\* client and the capture callback are not obliged to do anything.
FrameArrivedFew == FrameArrivedUpTo(MaxPushLate)

\* The chunk loop of Send on frames of 16, 17 and 33 chunks, with a reading of
\* the buffer before chunk 16 and another before chunk 32, and SafeSend
\* failing at a chunk around them or not at all.
FragmentSizes == {16 * DCK, 16 * DCK + 1, (LongFrameChunks - 1) * DCK + 1}

FragmentStops == {-1, 15, 16, 32}

FragmentReads == {<<a, b>> : a \in MidBufLevels, b \in MidBufLevels}

EncodeSendLong ==
    EncodeAndSendReading({"frame"}, FragmentSizes, {BT}, FragmentStops, FragmentReads, TRUE)

NextFragment ==
    \/ PcConnected \/ DcOpen
    \/ DeliverSend \/ AuthSendResponse \/ AuthSendHostInfo \/ AuthSendMonitorList \/ AuthCallback
    \/ OnFrameArrived \/ EncCheck \/ EncPop \/ EncGate \/ EncodeSendLong

SpecFragment == Init /\ [][NextFragment]_vars

\* Clipboard synchronisation over two sessions: one client that authenticates,
\* sends clipboard texts and asks for the host's clipboard, and a host user
\* who copies texts, the same one again or another.
SyncMsgs ==
    { AuthRequestOf(authUsername, authPin, <<>>), Msg("CLPR", 4, <<>>) }
    \cup { Msg("CLPT", 8 + 1, <<t>>) : t \in 1..MaxSyncText }

DeliverSync == OnMessage(SyncMsgs)

HostCopySync == HostCopyOf(1..MaxSyncText)

WndProcSync == WndProcEvent(TRUE)

NextSync ==
    \/ Setup \/ PcConnected \/ DcOpen
    \/ DeliverSync \/ AuthSendResponse \/ AuthSendHostInfo \/ AuthSendMonitorList \/ AuthCallback
    \/ HostCopySync \/ WndProcSync

SpecSync == Init /\ [][NextSync]_vars

NextShutdown ==
    \/ PcConnected \/ DcOpen
    \/ DeliverSend \/ AuthSendResponse \/ AuthSendHostInfo \/ AuthSendMonitorList
    \/ AuthCallback
    \/ FrameArrivedFew \/ EncCheck \/ EncPopFrame \/ EncGateFrame \/ EncodeSendPool
    \/ AudCheck \/ AudSend
    \/ Shutdown \/ EncExit \/ AudExit \/ StatsExit

\* the steps of each thread of main: a thread that can take a step takes one
EncodeThread == EncCheck \/ EncPopFrame \/ EncGateFrame \/ EncodeSendPool \/ EncExit
AudioThread == AudCheck \/ AudSend \/ AudExit
StatsThread == StatsExit

SpecShutdown ==
    /\ Init /\ [][NextShutdown]_vars
    /\ WF_vars(EncodeThread) /\ WF_vars(AudioThread) /\ WF_vars(StatsThread)

\* ================================================================== claims
\* ------------------------------------------------------------------ C1
\* C1 (as stated): every message the host puts on the channel, other than
\* an AuthResponse, is put there after AuthResponse(success=1) was sent in
\* the same session.
C1_NoHostDataBeforeAuthOk ==
    \A i \in DOMAIN ev.out : ev.out[i].k # "AUTR" => authOkSent

\* ------------------------------------------------------------------ C2
\* The claim's reading of "username and PIN bytes both exactly equal the
\* configured credentials", taken from the wire format: the message holds
\* the 6-byte header and both fields, and the fields are the credentials.
CredentialsMatch(m) ==
    /\ m.len >= AUTH_HDR
    /\ m.len >= AUTH_HDR + m.tail[1] + m.tail[2]
    /\ SubSeq(m.tail, 3, 2 + m.tail[1]) = authUsername
    /\ SubSeq(m.tail, 3 + m.tail[1], 2 + m.tail[1] + m.tail[2]) = authPin

IsAuthRequest(e) == e.op = "Msg" /\ e.msg.mg = "AUTH" /\ e.msg.len >= 4

\* C2: a step sets `authenticated` exactly when it is HandleAuthRequest on an
\* AuthRequest whose username and PIN equal the configured ones; every other
\* AuthRequest leaves the flag as it was and is answered with exactly one
\* AuthResponse carrying success=0.
C2_AuthIffCredentialsMatch ==
    [][ /\ (IsAuthRequest(ev') /\ CredentialsMatch(ev'.msg)) => authenticated'
        /\ (IsAuthRequest(ev') /\ ~CredentialsMatch(ev'.msg)) =>
              /\ authenticated' = authenticated
              /\ Len(ev'.out) = 1
              /\ ev'.out[1].k = "AUTR" /\ ev'.out[1].success = 0
        /\ (authenticated' /\ ~authenticated) =>
              (IsAuthRequest(ev') /\ CredentialsMatch(ev'.msg))
      ]_vars

\* An unauthenticated session has just handled a matching AuthRequest.
C2_Witness ==
    /\ IsAuthRequest(ev) /\ CredentialsMatch(ev.msg)
    /\ authenticated /\ pcH = "sendResp" /\ ~authOkSent

\* ------------------------------------------------------------------ C3
\* C3: a handler run on a message other than an AuthRequest, in a session
\* that is not authenticated, changes no state (session flags, target FPS,
\* fps-received, keyframe-needed, last ping, overflow counter, monitor
\* binding, capture, encoder, clipboard), puts nothing on the channel,
\* injects no input and does not touch the clipboard.
C3_GateBlocksEverything ==
    [][ (ev'.op = "Msg" /\ ev'.msg.mg # "AUTH" /\ ~authenticated) =>
            /\ UNCHANGED <<transportVars, envVars, handlerVars, encodeVars, pcA, lockVars, runVars,
                           captureVars, clipVars, histVars>>
            /\ ev'.out = <<>>
            /\ ev'.fx = "none"
      ]_vars

\* An FPS_SET that would be accepted has just been ignored by an
\* unauthenticated session with an open channel.
C3_Witness ==
    /\ ev.op = "Msg" /\ ev.msg = Msg("FPSC", 7, <<ReqFps, 0>>)
    /\ ~authenticated /\ ~fpsr /\ ChannelOpen

\* ------------------------------------------------------------------ C4
HandshakeOrder == <<"AUTR", "HOST", "MONL", "CALLBACK">>

\* C4 (as stated): from AuthResponse(success=1) on, what the host puts on the
\* open channel is HOST_INFO, then MONITOR_LIST, with nothing else between,
\* and the authenticated callback runs after them.
C4_HandshakeInOrder ==
    ChannelOpen => \A i \in DOMAIN hs : hs[i] = HandshakeOrder[i]

\* ------------------------------------------------------------------ C5
\* C5 (as stated, its safety part): once an AuthRequest with non-matching
\* credentials has been answered in a session, no video chunk is put on the
\* channel in that session.
C5_NoVideoAfterFailedAuth ==
    authFailed => ~HasKind(ev.out, "VIDEO")

\* ------------------------------------------------------------------ C6
\* C6 (as stated): a video chunk is put on the channel only in a session in
\* which an FPS_SET was accepted from the authenticated client.
C6_VideoOnlyAfterFpsSet ==
    HasKind(ev.out, "VIDEO") => fpsAccepted

\* ------------------------------------------------------------------ C7
MaxFid == <<TWO16 - 1, TWO16 - 1>>

\* b = a + 1 modulo 2^32, on <<high half, low half>>
Succ32(a, b) ==
    IF a[2] < TWO16 - 1 THEN b = <<a[1], a[2] + 1>>
    ELSE b[2] = 0 /\ b[1] = (a[1] + 1) % TWO16

WithChunks(i) == sentFids[i].sent

VideoSent == ev.op = "EncodeSend" /\ ev.out # <<>>

\* total = ceil(size / DCK), stated without division
IsCeilOf(total, size) == total * DCK >= size /\ (total - 1) * DCK < size

\* C8 (as stated): a frame that puts a chunk on the channel puts all of them:
\* chunk_index runs over 0..total-1, each once, in order, and
\* total = ceil(payload / DATA_CHUNK_SIZE).
C8_AllChunksInOrder ==
    VideoSent =>
        /\ Len(ev.out) = ev.out[1].total
        /\ \A i \in DOMAIN ev.out :
              /\ ev.out[i].idx = i - 1
              /\ ev.out[i].total = ev.out[1].total
              /\ IsCeilOf(ev.out[i].total, ev.out[i].size)

\* C8 (amended): the chunks a frame puts on the channel are chunk_index
\* 0..k-1, each once, in order, with 1 <= k <= total and
\* total = ceil(payload / DATA_CHUNK_SIZE), every chunk full but the last of
\* a complete frame; k < total exactly when the send was abandoned part-way
\* (a failed chunk send, or more than 2*BT buffered at a 16th chunk), and
\* then the frame counts as dropped and a keyframe is requested.
C8_ChunkPrefixInOrder ==
    VideoSent =>
        /\ Len(ev.out) <= ev.out[1].total
        /\ \A i \in DOMAIN ev.out :
              /\ ev.out[i].idx = i - 1
              /\ ev.out[i].total = ev.out[1].total
              /\ ev.out[i].fid = ev.out[1].fid
              /\ IsCeilOf(ev.out[i].total, ev.out[i].size)
              /\ ev.out[i].len = IF i < ev.out[i].total THEN DCK
                                 ELSE ev.out[i].size - (i - 1) * DCK
        /\ (Len(ev.out) < ev.out[1].total) <=> (ev.path = "aborted")
        /\ ev.path = "aborted" => nkey

\* A 17-chunk frame was abandoned at chunk 16.
C8_Witness ==
    /\ VideoSent /\ ev.path = "aborted"
    /\ Len(ev.out) = 16 /\ ev.out[1].total = BigFrameChunks

\* ------------------------------------------------------------------ C9
\* C9 (as stated): a video frame put on the channel while a keyframe request
\* is outstanding (marked and not yet answered by a key frame) is a key
\* frame.
C9_OwedKeyframeIsSent ==
    \A i \in DOMAIN ev.out :
        (ev.out[i].k = "VIDEO" /\ ev.out[i].owed) => ev.out[i].isKey

\* ------------------------------------------------------------------ C10
\* This step is a Send that reads more than BT buffered bytes at its
\* pre-fragmentation check.
SendSawOverflow ==
    /\ pcE = "encode" /\ er /\ conn /\ authenticated /\ ChannelOpen /\ ~IsConnectionStale
    /\ ev'.op = "EncodeSend" /\ ev'.path \notin {"noenc", "nullptr"}
    /\ ev'.obs > BT

\* C10 (as stated): such a Send puts no chunk on the channel, adds one to
\* the dropped-frame counter and to the overflow counter, and sets
\* keyframe-needed.
C10_OverflowCountsOne ==
    [][ SendSawOverflow =>
            /\ ev'.out = <<>>
            /\ dpc' = dpc + 1
            /\ consecutiveOverflows' = consecutiveOverflows + 1
            /\ nkey'
      ]_vars

\* C10 (amended): such a Send puts no chunk on the channel, consumes no
\* frame id, adds one to the dropped-frame counter and sets keyframe-needed;
\* it adds one to the overflow counter, unless that is the tenth consecutive
\* overflow: then the session is force-disconnected and the counter is 0.
C10_OverflowCountsOneOrDisconnects ==
    [][ SendSawOverflow =>
            /\ ev'.out = <<>>
            /\ fid' = fid
            /\ dpc' = dpc + 1
            /\ nkey'
            /\ IF consecutiveOverflows + 1 < MAX_OVERFLOWS
                 THEN consecutiveOverflows' = consecutiveOverflows + 1 /\ conn'
                 ELSE /\ consecutiveOverflows' = 0
                      /\ ~conn' /\ ~authenticated' /\ ~fpsr'
                      /\ discCalls' = discCalls + 1
      ]_vars

\* The tenth consecutive overflow has just force-disconnected the session.
C10_Witness ==
    /\ ev.op = "EncodeSend" /\ ev.path = "overflow" /\ ev.obs > BT
    /\ ~conn /\ consecutiveOverflows = 0 /\ discCalls = 1

\* ------------------------------------------------------------------ C11
\* C11 (as stated): when ten Send calls in a row on a connected,
\* authenticated session have each read more than BT buffered bytes, the
\* session is force-disconnected, whatever the client sent in between.
\* ovfRun counts those calls: Send adds one when it reads more than BT and
\* clears it when it reads less.
C11_TenOverflowsDisconnect ==
    ovfRun >= MAX_OVERFLOWS => ~conn

\* ------------------------------------------------------------------ C12
\* The session is Connected with its data channel open, and more than
\* PING_TIMEOUT_MS have passed since the last accepted ping (or, with none
\* accepted yet, since the channel opened): from here on only a ping can
\* refresh lastPingResponse.
StaleConnected ==
    /\ conn /\ dcState = "open"
    /\ lastPingResponse > 0 /\ now - lastPingResponse > PING_TIMEOUT_MS

\* C12 (as stated): a Connected session that has had no ping accepted for
\* more than 3000 ms is eventually Closed: connected is false and the
\* disconnect callback has run.
C12_StaleSessionCloses ==
    StaleConnected ~> (~conn /\ discCalls > 0)

\* ------------------------------------------------------------------ C13
\* C13 (as stated): every step that takes the session from Connected to
\* Closed (ForceDisconnect, the peer connection leaving Connected, the data
\* channel closing) runs the disconnect callback exactly once.
C13_CallbackOncePerClose ==
    [][ (conn /\ ~conn' /\ ev'.op # "Setup") => discCalls' = discCalls + 1 ]_vars

\* ------------------------------------------------------------------ C14
Cleared == ~authenticated /\ ~fpsr /\ consecutiveOverflows = 0

\* C14 (as stated): every close transition (ForceDisconnect, the peer
\* connection leaving Connected, the data channel closing, Setup for a new
\* offer) leaves authenticated false, fps_received false and the overflow
\* counter 0, and from then on the three change only in a step that accepts
\* an AuthRequest or an FPS_SET.
C14_ClosedSessionStaysCleared ==
    [][ /\ (ev'.op \in {"Setup", "PcDown", "DcClosed"} \/ (conn /\ ~conn')) => Cleared'
        /\ (Cleared /\ ~Cleared') =>
              (ev'.op = "Msg" /\ ev'.msg.mg \in {"AUTH", "FPSC"})
      ]_vars

\* ------------------------------------------------------------------ C15
SlotCounts ==
    /\ pushed = popped + (dropTotal + dropCount) + (IF readIdx >= 0 THEN 1 ELSE 0)
    /\ readIdx \in -1..2
    /\ readIdx >= 0 => slots[readIdx].tex # 0

\* C15: with Push by the capture callback and Pop by the encode thread and
\* no Reset in between, one cell at most is read-ready and it holds a frame;
\* a Pop that succeeds returns the frame of the latest Push, which no
\* earlier Pop returned; and the frames pushed are the frames popped, plus
\* the drops counted so far, plus the one that is read-ready.
C15_SlotDeliversLatestOnce ==
    /\ SlotCounts
    /\ [][ /\ SlotCounts'
           /\ (ev'.op = "Pop" /\ ev'.path = "frame") =>
                 (ev'.obs = pushed /\ ev'.obs > lastPop /\ fd'.tex = ev'.obs)
       ]_vars

C15_Witness ==
    popped >= 2 /\ dropTotal >= 1 /\ dropCount >= 1 /\ readIdx >= 0

C17_HeldFramesAreInFlight ==
    /\ \A i \in 0..2 : slots[i].poolIdx >= 0 => IsInFlight(slots[i].poolIdx)
    /\ fd.poolIdx >= 0 => IsInFlight(fd.poolIdx)

\* ------------------------------------------------------------------ C18
\* C18 (as stated): when the capture callback copies a surface into pool
\* texture i, FindAvailableTexture did not take its fallback, bit i is
\* clear, and texture i is neither the texture of the read-ready cell nor
\* the texture the encode thread holds.
C18_CaptureWritesOnlyFreeTextures ==
    [][ (ev'.op = "FrameArrived" /\ ev'.path # "nosurface") =>
          /\ ev'.path # "conflict"
          /\ ~IsInFlight(ev'.obs)
          /\ ~(readIdx >= 0 /\ slots[readIdx].inPool /\ slots[readIdx].poolIdx = ev'.obs)
          /\ ~(fd.inPool /\ fd.poolIdx = ev'.obs)
      ]_vars

\* ------------------------------------------------------------------ C19
\* C19: SetFPS(n) with n < 1 or n > 240 returns false and leaves targetFps
\* and forceSync as they were; with 1 <= n <= 240 it returns true and
\* GetCurrentFPS() is n afterwards.
C19_SetFPSValidatesRange ==
    [][ ev'.op = "SetFPS" =>
          IF ev'.obs < 1 \/ ev'.obs > 240
            THEN ev'.path = "false" /\ targetFps' = targetFps /\ forceSync' = forceSync
            ELSE ev'.path = "true" /\ GetCurrentFPS' = ev'.obs
      ]_vars

C19_Witness ==
    ev.op = "SetFPS" /\ ev.obs > 240 /\ ev.path = "false" /\ GetCurrentFPS = 1 /\ ~forceSync

\* ------------------------------------------------------------------ C20
ClampFps(fps) == IF fps < 1 THEN 1 ELSE IF fps > 240 THEN 240 ELSE fps

\* C20 (as stated): a 7-byte FPS_SET from an authenticated client is
\* answered by one FPS_ACK that carries the requested rate clamped into
\* [1,240], or the host refresh rate when mode = 1, and a mode of at most 2;
\* after the ack GetCurrentFPS() is the rate of the ack.
C20_FpsSetAcked ==
    [][ (ev'.op = "Msg" /\ ev'.msg.mg = "FPSC" /\ ev'.msg.len = 7 /\ authenticated) =>
          /\ Len(ev'.out) = 1
          /\ ev'.out[1].k = "FPSA"
          /\ ev'.out[1].fps = (IF ev'.msg.tail[2] = 1 THEN HostFps
                                ELSE ClampFps(ev'.msg.tail[1]))
          /\ ev'.out[1].mode <= 2
          /\ GetCurrentFPS' = ev'.out[1].fps
      ]_vars

\* ------------------------------------------------------------------ C21
\* C21: SwitchMonitor(i) returns false for every i below 0 and every i at
\* or above the size of the monitor list; when it returns true
\* GetCurrentMonitorIndex() is i, when it returns false
\* GetCurrentMonitorIndex() is what it was before the call.
C21_SwitchMonitorIndex ==
    [][ ev'.op = "SwitchMonitor" =>
          /\ (ev'.obs < 0 \/ ev'.obs >= NumMonitors) => ev'.path = "false"
          /\ ev'.path = "true" => GetCurrentMonitorIndex' = ev'.obs
          /\ ev'.path = "false" => GetCurrentMonitorIndex' = GetCurrentMonitorIndex
      ]_vars

C21_Witness ==
    /\ ev.op = "SwitchMonitor" /\ ev.obs = NumMonitors /\ ev.path = "false"
    /\ GetCurrentMonitorIndex = 1

\* ------------------------------------------------------------------ C22
\* C22 (as stated): a SwitchMonitor that returns false leaves the engine
\* either exactly as it was before the call, or fully stopped: no capture
\* session, no monitor index that claims a binding, capturing and
\* session-started both false.
C22_FailedSwitchIsCleanOrStopped ==
    [][ (ev'.op = "SwitchMonitor" /\ ev'.path = "false") =>
          \/ captureVars' = captureVars
          \/ /\ ~framePool' /\ ~capturing' /\ ~sessionStarted'
             /\ GetCurrentMonitorIndex' \notin 0 .. (NumMonitors - 1)
      ]_vars

\* ------------------------------------------------------------------ C23
\* C23: a 5-byte MONITOR_SET{index} from an authenticated client: when the
\* switch succeeds (the engine is on monitor index afterwards) keyframe-needed
\* is set and a MONITOR_LIST whose current index is index and a HOST_INFO go
\* on the channel; when it fails nothing is sent and keyframe-needed is as it
\* was.
C23_MonitorSetReply ==
    [][ (ev'.op = "Msg" /\ ev'.msg.mg = "MONS" /\ ev'.msg.len = 5 /\ authenticated) =>
          IF GetCurrentMonitorIndex' = ev'.msg.tail[1]
            THEN /\ nkey'
                 /\ Len(ev'.out) = 2
                 /\ ev'.out[1].k = "MONL" /\ ev'.out[1].current = ev'.msg.tail[1]
                 /\ ev'.out[2].k = "HOST"
            ELSE ev'.out = <<>> /\ nkey' = nkey
      ]_vars

C23_Witness ==
    /\ ev.op = "Msg" /\ ev.msg.mg = "MONS" /\ ev.msg.tail[1] = 1
    /\ Len(ev.out) = 2 /\ ev.out[1].current = 1 /\ nkey

\* ------------------------------------------------------------------ C24
\* some threads wait for each other in a cycle
WaitCycle ==
    \E t \in Threads :
        LET a == WaitsFor(t)
            b == IF a \in Threads THEN WaitsFor(a) ELSE "none"
            c == IF b \in Threads THEN WaitsFor(b) ELSE "none"
            d == IF c \in Threads THEN WaitsFor(c) ELSE "none"
        IN  t \in {a, b, c, d}

\* C24: the threads never wait for each other in a cycle; a thread that
\* acquires the capture mutex does not hold the monitor-list mutex, and a
\* thread that acquires the capture mutex, the monitor-list mutex or the
\* slot's critical section does not hold the encoder mutex.
C24_NoDeadlockLockOrder ==
    /\ [] ~WaitCycle
    /\ [][ (ev'.op = "Lock" /\ ev'.obs = 1) =>
             /\ ev'.fx = "captureMutex" => "g_monitorsMutex" \notin Holds(ev'.path)
             /\ ev'.fx \in {"captureMutex", "g_monitorsMutex", "cs"} =>
                   "em" \notin Holds(ev'.path)
       ]_vars

C24_Witness ==
    /\ mtx["em"] = "encode" /\ LockOp("encode")[2] = "multithread" /\ Blocked("encode")
    /\ Blocked("handler") /\ LockOp("handler")[2] = "em"
    /\ Holds("handler") = {"captureMutex", "g_monitorsMutex"}
    /\ Blocked("stats")

\* ------------------------------------------------------------------ C25
Terminated == pcE = "done" /\ pcA = "done" /\ pcT = "done"

\* C25: once run is false and the slot's event has been signalled, the
\* encode thread, the audio-dispatch thread and the stats thread each leave
\* their loop, whatever the state of the session, the slot and the encoder
\* at that moment.
C25_ThreadsTerminate == ~run ~> Terminated

C25_Witness ==
    /\ Terminated /\ readIdx >= 0 /\ conn /\ authenticated /\ fpsr /\ popped > 0

\* C26: when two consecutive clipboard-change events of one session find the
\* same text on the host clipboard, the two events together put at most one
\* MSG_CLIPBOARD_TEXT with that text on the channel.
C26_SameTextSentOnce == clipRun.events >= 2 => clipRun.sent <= 1

\* The second event of such a run has run on an open, authenticated channel
\* with room in the buffer, after the first had sent the text.
C26_Witness ==
    /\ ev.op = "WndProc" /\ clipRun.events = 2 /\ clipRun.sent = 1
    /\ conn /\ authenticated /\ ChannelOpen /\ ev.obs <= BT \div 2 /\ ev.out = <<>>
    /\ ~ignoreNextChange /\ lastSentHash = HashData(hostClip)

\* C27: when an authenticated client's MSG_CLIPBOARD_REQUEST is handled, or the
\* authenticated callback runs at session start, while the host clipboard
\* holds a text and the channel is open with room in its buffer, the host puts
\* that text on the channel, whatever it sent or received before.
C27_RequestSendsClipboard ==
    [][ ( /\ \/ ev'.op = "Msg" /\ ev'.msg.mg = "CLPR"
             \/ ev'.op = "AuthCallback"
          /\ conn /\ authenticated /\ ChannelOpen
          /\ hostClip # 0 /\ ev'.obs <= BT \div 2 )
        => TextsIn(ev'.out, hostClip) = 1 ]_vars

\* C28: a Push that finds the previously pushed frame still unread adds one to
\* the drop counter and leaves the in-flight bit of the dropped frame's pool
\* index clear.
C28_DroppedFrameIsReleased ==
    [][ (ev'.op = "FrameArrived" /\ ev'.path # "nosurface" /\ readIdx >= 0)
        => /\ dropCount' = dropCount + 1
           /\ ~(slots[readIdx].poolIdx \in inFlightMask') ]_vars

\* C29: whenever a frame is read-ready the slot's event is signalled, so a Pop
\* that runs while a frame is read-ready returns that frame; a Pop that finds
\* no read-ready frame, the event signalled (shutdown) or not, returns nothing
\* and leaves the slot's cells and the caller's frame as they were.
C29_NoLostWakeup ==
    /\ [](readIdx >= 0 => slotReady)
    /\ [][ ev'.op = "Pop" =>
            IF readIdx >= 0
              THEN ev'.path = "frame" /\ fd' = slots[readIdx] /\ readIdx' = -1
              ELSE ev'.path = "timeout" /\ fd' = fd /\ slots' = slots /\ ~slotReady' ]_vars

\* After shutdown has signalled the event, a Pop ran with no frame read-ready
\* and returned nothing; earlier Pops returned frames.
C29_Witness ==
    ~run /\ ev.op = "Pop" /\ ev.path = "timeout" /\ popped > 0 /\ ~slotReady /\ readIdx < 0

\* C30: every frame the encode thread has popped is released by exactly one
\* MarkReleased of its pool index: the frames popped are the indices released
\* plus the frame the thread is working on.  When the fence wait fails the
\* frame is released in that step and the thread is back at the top of its
\* loop: nothing is encoded or sent, no frame id is used, and the capturing
\* flag and the session flags stay as they are.
C30_PoppedFrameReleasedOnce ==
    /\ [](popped = released + (IF pcE \in {"gate", "encode", "chunks"} THEN 1 ELSE 0))
    /\ [][ (ev'.op = "EncGate" /\ ev'.path = "fence")
            => /\ pcE' = "top" /\ ev'.out = <<>> /\ fid' = fid /\ sentFids' = sentFids
               /\ released' = released + 1
               /\ inFlightMask' = inFlightMask \ {fd.poolIdx}
               /\ fd' = NoFrameData
               /\ capturing' = capturing /\ conn' = conn
               /\ authenticated' = authenticated /\ fpsr' = fpsr ]_vars

\* A fence wait has failed on a connected, capturing host after two earlier
\* frames were released.
C30_Witness == ev.op = "EncGate" /\ ev.path = "fence" /\ released >= 2 /\ capturing /\ conn

\* ------------------------------------------------------------------ C31
\* The k-th re-check of a Send (before chunk 16*k) is made: every earlier
\* re-check read at most BTH and SafeSend failed at no earlier chunk.
CheckMade(x, k) ==
    /\ \A j \in 1..(k - 1) : x.reads[j] <= BTH
    /\ x.stop < 0 \/ x.stop >= 16 * k

\* C31: when a Send that fragments a frame makes the re-check before chunk
\* 16*k and reads more than BTH = 2*BT, it has sent exactly the chunks
\* 0..16*k-1, none with that or a higher index, it counts the frame dropped
\* once and it sets keyframe-needed; the re-check is made before every chunk
\* whose index is a positive multiple of 16.
C31_MidFrameOverflowAborts ==
    [][ (ev'.op = "EncodeSend" /\ ev'.path \in {"aborted", "frame"})
        => LET x == ev'.fx IN
           \A k \in 1..((x.n - 1) \div 16) :
              (CheckMade(x, k) /\ x.reads[k] > BTH)
              => /\ ev'.path = "aborted"
                 /\ Len(ev'.out) = 16 * k
                 /\ \A i \in DOMAIN ev'.out : ev'.out[i].idx < 16 * k
                 /\ dpc' = dpc + 1
                 /\ nkey' ]_vars

\* The second re-check of a 33-chunk frame, before chunk 32, read more than
\* BTH after the first had read BTH: 32 chunks are out.
C31_Witness ==
    /\ ev.op = "EncodeSend" /\ ev.path = "aborted" /\ ev.fx.n = LongFrameChunks
    /\ ev.fx.reads = <<BTH, BTH + 1>> /\ ev.fx.stop = -1
    /\ Len(ev.out) = 32 /\ dpc = 1 /\ nkey

\* ---------------------------------------------------------------- C32
\* C32: while the session is connected the overflow counter equals the
\* number of overflow observations Send has made, before the chunk loop or
\* in it, since the last frame whose chunks were all sent or since the
\* session started; nothing else, a received MSG_PING included, resets it.
C32_OverflowCounterIsRunLength ==
    conn => consecutiveOverflows = ovfObs

\* ---------------------------------------------------------------- C33
\* C33: SendAudio puts a packet on the channel only when bufferedAmount()
\* is strictly less than BT / 2 = 16384, the overflow counter is below 5,
\* the session is connected and authenticated and the payload has 1..4000
\* bytes; a call that sends nothing changes no state of the transport.
C33_AudioOnlyBelowHalfThreshold ==
    [][ev'.op = "AudSend" =>
         IF ev'.out # <<>>
           THEN /\ ev'.obs < BT \div 2
                /\ consecutiveOverflows < 5
                /\ conn /\ authenticated
                /\ ev'.fx \in 1..4000
           ELSE UNCHANGED transportVars]_vars

\* ---------------------------------------------------------------- C34
\* C34: a frame unit returned by Encode has isKey set exactly when one of
\* the packets concatenated into its payload carries the key flag, the
\* packets drained after an EAGAIN from the first avcodec_send_frame
\* included.
C34_IsKeyIffSomePacketKey ==
    (ev.op = "Encode" /\ ~ev.obs.null) => (ev.obs.isKey <=> AnyKey(ev.obs.data))

\* ---------------------------------------------------------------- C35
\* C35: with iv = 1000000 / targetFps, a surface that arrives at t with
\* forceSync clear is dropped exactly when t < nextFrameTime; with forceSync
\* set it is accepted and the flag is cleared; after an accepted surface
\* t < nextFrameTime <= t + iv; and while forceSync stays clear
\* nextFrameTime is anchor + k * iv, so that two accepted surfaces never
\* fall into the same interval of that grid.
GridIdx(x, iv) == (x - anchor + iv) \div iv

RateRule ==
    ev'.op = "FrameArrivedAt" =>
        LET t == ev'.obs
            f == ev'.fx
        IN  /\ ~f.sync => (ev'.path = "drop" <=> t < f.nft)
            /\ f.sync => ev'.path = "accept"
            /\ ~forceSync'
            /\ ev'.path = "accept" => t < nextFrameTime' /\ nextFrameTime' <= t + f.iv
            /\ ev'.path = "drop" => nextFrameTime' = f.nft
            /\ (ev'.path = "accept" /\ ~f.sync /\ f.last >= 0)
                  => GridIdx(f.last, f.iv) < GridIdx(t, f.iv)

OnGrid ==
    (~forceSync /\ anchor > 0) =>
        /\ nextFrameTime >= anchor
        /\ (nextFrameTime - anchor) % (1000000 \div targetFps) = 0

C36_CallbackAfterRestoreOutsideLocks ==
    ev.op = "ResolutionChange" =>
        /\ ev.obs = ev.fx.was
        /\ ev.fx.held \cap {"captureMutex", "g_monitorsMutex"} = {}

\* ---------------------------------------------------------------- C38
\* C38: a step in which the disconnect callback runs leaves capturing
\* false, and capturing becomes true again only by an MSG_FPS_SET accepted
\* on an authenticated session, or by a SwitchMonitor that found it true
\* and during which no disconnect callback ran.
C38_PausedUntilFpsSet ==
    [][ /\ discCalls' > discCalls => ~capturing'
        /\ (~capturing /\ capturing') =>
              \/ ev'.op = "Msg" /\ ev'.msg.mg = "FPSC" /\ authenticated
              \/ ev'.op = "SwitchRestart" /\ discCalls = ev'.obs
      ]_vars

\* ---------------------------------------------------------------- C37
\* C37: every frame the encode thread passes to Encode is held in a texture
\* of the current texture pool, the one of the monitor the engine is bound
\* to and the encoder was built for: a frame popped before a successful
\* monitor switch is not encoded by the encoder that switch built.
C37_EncodedFrameFromCurrentMonitor ==
    [][ (ev'.op = "EncodeSend" /\ ev'.path # "noenc") => fd.inPool ]_vars

\* ---------------------------------------------------------------- C39
\* C39: whenever capturing is true, the capture session and frame pool of
\* the current monitor exist and the session has been started.
C39_CapturingHasStartedSession ==
    capturing => (framePool /\ sessionStarted)

\* ---------------------------------------------------------------- C40
\* C40: once an MSG_FPS_SET has been accepted in the session, the capture
\* engine's target FPS is the effective rate of the last MSG_FPS_ACK (the
\* transport's GetCurrentFps()), whatever MSG_MONITOR_SET messages have
\* been handled since.
C40_TargetFpsIsNegotiated ==
    fpsr => GetCurrentFPS = cfps

====
